---------------------------- MODULE Spec2Model ----------------------------
(***************************************************************************)
(* LiveKit Manager API: the egress (recording) orchestration of            *)
(* Services/livekit_egress.py and Routers/egress_router.py, as a state     *)
(* machine.  One HTTP request is served per behaviour; the remote media    *)
(* server is the environment: it answers every outstanding remote call     *)
(* with a result or an error, in any order.  Each `await` of a remote call *)
(* is a suspension point of the cooperative scheduler; code between two    *)
(* suspension points runs as one step, except that the wall clock may      *)
(* advance between any two reads of it.                                    *)
(*                                                                         *)
(* Strings that the code assembles (file names, prefixes, paths) are       *)
(* sequences of tokens; the path separator "/" is a token of its own.      *)
(***************************************************************************)
EXTENDS Integers, Sequences, FiniteSets, TLC

(***************************************************************************)
(* Bounds of the model.                                                    *)
(***************************************************************************)
MaxTracks == 2        \* tracks published by one participant
MaxMinTracks == 2     \* largest min_tracks a request carries
MaxClock == 1         \* seconds the wall clock may advance during a request
MaxIds == 3           \* identifiers in one stop-many payload
MaxNameLen == 3       \* tokens of a room name, identity or file name of a payload
MaxRequests == 2      \* create-room requests in flight for one room name
MaxCalls == 8         \* calls of client() and close() on one service

(***************************************************************************)
(* Input universes.                                                        *)
(***************************************************************************)
\* the identities of the participants of a room, in server order: LiveKit takes
\* any non-empty string as an identity, path separators included
Identities == << <<"alice">>, <<"bob">> >>
SlashedIdentities == << <<"x", "/", "y">>, <<"x", "/", "/", "y">> >>
IdentityLists == {Identities, SlashedIdentities}
RoomNames == {<<"studio-1">>}
EgressIds == {"EG_a", "EG_b"}
Roles == {"emitter", "viewer"}        \* ROLE_EMITTER, ROLE_VIEWER
RoleInputs == {"emitter", "Emitter", "VIEWER", "Admin"}   \* payload.role as sent
MinTtlSeconds == 60                   \* validate_token_ttl: `if v < 60`
MaxTtlSeconds == 86400                \* validate_token_ttl: `if v > 86400`
\* payload.ttl_seconds: Optional[int] = None
TtlInputs == {<<>>, <<0>>, <<59>>, <<60>>, <<86400>>, <<86401>>}
EgressIdOrder == <<"EG_a", "EG_b">>   \* the order in which the server lists them
SrvRoomNames == {<<"studio-1">>, <<"lobby">>}
\* payload.rooms: List[str] with min_items=1, a room may be named twice
RoomLists == {<<a>> : a \in SrvRoomNames} \cup {<<a, b>> : a, b \in SrvRoomNames}
Timestamps == {0, 5, -5}              \* started_at / ended_at in ns, 0 when unset
\* timestamps outside the range every platform's fromtimestamp accepts
OddTimestamps == {t \in Timestamps : t < 0}
SrvRecords == [room_name : SrvRoomNames, started_at : Timestamps, ended_at : Timestamps]
NoRecord == [room_name |-> <<>>, started_at |-> 0, ended_at |-> 0]
TrackTypes == {"AUDIO", "VIDEO", "DATA"}
Tracks == [muted : BOOLEAN, type : TrackTypes]

None == "None"

VARIABLES
    clock,            \* datetime.now(LOCAL_TZ), in seconds
    client_instance,  \* LiveKitEgressService._client_instance: None or "LiveKitAPI"
    srv_egress,       \* remote server: the recordings it started, in order
    log,              \* LiveKitEgressService._logger: error records
    response,         \* the HTTP response of the request, status 0 while unanswered
    \* ---- POST /egress/emitters ----
    em_pc,            \* position of record_emitters_endpoint / record_all_emitters
    em_room,          \* payload.room_name
    em_min,           \* payload.min_tracks
    em_listed,        \* participants_resp.participants
    em_i,             \* loop index over participants_resp.participants
    em_tasks,         \* tasks: the start requests built by the loop
    em_infos,         \* infos: the outcome of each task, "pending" while outstanding
    \* ---- POST /egress/full ----
    fr_pc,            \* position of full_record_endpoint / full_record
    fr_room,          \* payload.room_name
    fr_room_task,     \* room_task (record_room2): "none", "ready", "awaiting", "ok", "err"
    fr_room_req,      \* the RoomCompositeEgressRequest sent by record_room2
    fr_room_info,     \* room_info: the EgressInfo record_room2 returned
    fr_em_task,       \* emitters_task (record_all_emitters2): "none", "ready",
                      \*   "listing", "loop", "gathering", "ok", "err"
    fr_listed,        \* participants_resp.participants in record_all_emitters2
    fr_i,             \* its loop index
    fr_tasks,         \* its tasks
    fr_infos,         \* its infos
    fr_emitter_infos, \* emitter_infos: the list record_all_emitters2 returned
    \* ---- POST /egress/stop/by-ids ----
    sm_pc,            \* position of stop_recordings_by_ids
    sm_room,          \* payload.room
    sm_participants,  \* payload.participants
    sm_calls,         \* per stop_one task: the outcome of its remote stop call
    sm_results,       \* per stop_one task: the StopRecordingsResponse it returned
    sm_completed,     \* the tasks in the order in which they completed
    srv_status,       \* remote server: the state of each egress identifier
    srv_stops,        \* remote server: the stop requests it received, in order
    \* ---- POST /egress/stop ----
    so_pc,            \* position of stop_recording_endpoint
    so_id,            \* the egress_id query parameter
    so_stop,          \* the outcome of service.stop_recording
    so_listed,        \* all_recordings of the failed_precondition branch
    srv_records,      \* remote server: room and timestamps of each egress identifier
    unconvertible,    \* the timestamps for which datetime.fromtimestamp raises here
    \* ---- GET /egress/list/by-room/{room_name} ----
    ls_pc,            \* position of list_recordings_by_room_endpoint
    ls_room,          \* the room_name path parameter
    ls_active_only,   \* the active_only query parameter
    ls_req,           \* the ListEgressRequest sent by list_recordings_by_room
    ls_answers,       \* the answer to the listing with each value of active_only
    \* ---- POST /egress/room, POST /egress/participant ----
    st_pc,            \* position of record_room_endpoint / record_participant_endpoint
    st_kind,          \* the endpoint: "room" or "participant"
    st_room,          \* payload.room_name
    st_identity,      \* payload.identity (record_participant_endpoint)
    st_filename,      \* payload.filename (record_room_endpoint), <<>> when not given
    st_file,          \* the local `filename` of record_room / record_participant
    st_req,           \* the start request sent to the server
    st_sent,          \* the number of remote requests the call has issued
    \* ---- POST /participants/token ----
    tk_pc,            \* position of generate_token_endpoint / generate_token
    tk_room,          \* payload.room_name
    tk_identity,      \* payload.identity
    tk_role,          \* payload.role, lower-cased by the validator
    tk_check,         \* the list_rooms call of room_exists: "none", "pending",
                      \*   "found", "missing", "failed"
    tk_open,          \* LiveKitAPI instances of the participant service not yet closed
    srv_rooms,        \* remote server: the names of the active rooms
    \* ---- GET /rooms ----
    rm_pc,            \* position of list_rooms_endpoint / list_rooms
    rm_open,          \* LiveKitAPI instances of the room service not yet closed
    \* ---- Depends(verify_basic_auth) of the three routers ----
    au_pc,            \* "idle", "request", "accepted" or "rejected"
    au_endpoint,      \* the handler the request is routed to
    au_credentials,   \* the Authorization header: scheme, username, password
    \* ---- LiveKitEgressService.client() / close() ----
    cl_calls,         \* the calls made so far
    cl_created,       \* LiveKitAPI instances constructed by client()
    cl_released,      \* instances that close() took out of _client_instance
    cl_closing,       \* close() calls suspended in `await close_fn()`
    cl_outcome,       \* the last call: "none", "client", "closed" or "raised"
    \* ---- POST /rooms, by several requests for one name ----
    cr_name,          \* payload.name, the same in every request
    cr_pc,            \* per request: position of create_room_endpoint
    cr_responses,     \* per request: its HTTP response
    cr_existed,       \* per create_room call the server received, in order: whether
                      \*   a room of that name was active then
    \* ---- generate_tokens_multiple_endpoint / generate_tokens_for_rooms ----
    payload_role,     \* payload.role as the client sent it (TokenRequest, MultiTokenRequest)
    mt_pc,            \* position of generate_tokens_multiple_endpoint
    mt_rooms,         \* payload.rooms
    mt_ttl,           \* payload.ttl_seconds: <<>> for None, <<t>> for the integer t
    mt_i,             \* index in mt_rooms of the room generate_tokens_for_rooms is at
    mt_checks,        \* per room handled so far, what room_exists found: "found",
                      \*   "missing" or "failed"
    mt_results,       \* the dict `results`, in insertion order
    \* ---- main.py: lifespan ----
    app_state,        \* "running", or "stopped" once the shutdown part has run
    egress_service    \* _client_instance of the egress_service singleton of main.py

sharedVars == <<clock, client_instance, srv_egress, log, response>>
emVars == <<em_pc, em_room, em_min, em_listed, em_i, em_tasks, em_infos>>
frVars == <<fr_pc, fr_room, fr_room_task, fr_room_req, fr_room_info, fr_em_task,
            fr_listed, fr_i, fr_tasks, fr_infos, fr_emitter_infos>>
smVars == <<sm_pc, sm_room, sm_participants, sm_calls, sm_results, sm_completed,
            srv_status, srv_stops>>
soVars == <<so_pc, so_id, so_stop, so_listed, srv_records, unconvertible>>
lsVars == <<ls_pc, ls_room, ls_active_only, ls_req, ls_answers>>
stVars == <<st_pc, st_kind, st_room, st_identity, st_filename, st_file, st_req, st_sent>>
tkVars == <<tk_pc, tk_room, tk_identity, tk_role, tk_check, tk_open, srv_rooms>>
rmVars == <<rm_pc, rm_open>>
auVars == <<au_pc, au_endpoint, au_credentials>>
clVars == <<cl_calls, cl_created, cl_released, cl_closing, cl_outcome>>
crVars == <<cr_name, cr_pc, cr_responses, cr_existed>>
lfVars == <<app_state, egress_service>>
mtVars == <<payload_role, mt_pc, mt_rooms, mt_ttl, mt_i, mt_checks, mt_results>>
vars == <<sharedVars, emVars, frVars, smVars, soVars, lsVars, stVars, tkVars, rmVars,
          auVars, clVars, crVars, lfVars, mtVars>>
\* what the handlers of one endpoint leave alone
notEm == <<frVars, smVars, soVars, lsVars, stVars, tkVars, rmVars, auVars,
          clVars, crVars, lfVars, mtVars>>
notFr == <<emVars, smVars, soVars, lsVars, stVars, tkVars, rmVars, auVars,
          clVars, crVars, lfVars, mtVars>>
notSm == <<emVars, frVars, soVars, lsVars, stVars, tkVars, rmVars, auVars,
          clVars, crVars, lfVars, mtVars>>
notSo == <<emVars, frVars, lsVars, stVars, tkVars, rmVars, auVars,
          clVars, crVars, lfVars, mtVars>>
notLs == <<emVars, frVars, smVars, soVars, stVars, tkVars, rmVars, auVars,
          clVars, crVars, lfVars, mtVars>>
notSt == <<emVars, frVars, smVars, soVars, lsVars, tkVars, rmVars, auVars,
          clVars, crVars, lfVars, mtVars>>
notTk == <<emVars, frVars, smVars, soVars, lsVars, stVars, rmVars, auVars,
          clVars, crVars, lfVars, mtVars>>
notRm == <<emVars, frVars, smVars, soVars, lsVars, stVars, tkVars, auVars,
          clVars, crVars, lfVars, mtVars>>
notAu == <<emVars, frVars, smVars, soVars, lsVars, stVars, tkVars, rmVars,
          clVars, crVars, lfVars, mtVars>>
notCl == <<emVars, frVars, smVars, soVars, lsVars, stVars, tkVars, rmVars, auVars,
          crVars, lfVars, mtVars>>
\* POST /rooms reads and writes srv_rooms and rm_open
notCr == <<emVars, frVars, smVars, soVars, lsVars, stVars, auVars, clVars, lfVars,
          mtVars, tk_pc, tk_room, tk_identity, tk_role, tk_check, tk_open, rm_pc>>
\* POST /participants/token/batch shares payload.identity, payload.role, the clients
\* of the participant service and the rooms of the server with POST /participants/token
notMt == <<emVars, frVars, smVars, soVars, lsVars, stVars, rmVars, auVars, clVars, crVars,
          lfVars, tk_pc, tk_room, tk_identity, tk_role, tk_check, srv_rooms>>

(***************************************************************************)
(* Helpers on sequences.                                                   *)
(***************************************************************************)
Range(s) == {s[i] : i \in DOMAIN s}

RECURSIVE SeqsUpTo(_, _)
SeqsUpTo(S, n) ==
    IF n = 0 THEN {<<>>}
    ELSE LET shorter == SeqsUpTo(S, n - 1)
         IN  shorter \cup {Append(s, x) : s \in {t \in shorter : Len(t) = n - 1}, x \in S}

(***************************************************************************)
(* Time stamps and file names.                                             *)
(***************************************************************************)
\* datetime.now(LOCAL_TZ).strftime('%Y%m%d_%H%M%S'): one token per second
strftime(t) == "T" \o ToString(t)

\* str.replace("//", "/"): one left-to-right pass over non-overlapping matches
RECURSIVE replace_double_slash(_)
replace_double_slash(s) ==
    IF Len(s) < 2 THEN s
    ELSE IF s[1] = "/" /\ s[2] = "/"
         THEN <<"/">> \o replace_double_slash(SubSeq(s, 3, Len(s)))
         ELSE <<s[1]>> \o replace_double_slash(Tail(s))

\* LiveKitEgressService._file_output: the filepath of the EncodedFileOutput
file_output(filename, prefix) ==
    IF prefix # <<>>
    THEN replace_double_slash(prefix \o <<"/">> \o filename)
    ELSE filename

\* f"participant_{room_name}_{participant.identity}_{now}.mp4"
emitter_filename(room_name, identity, now) ==
    <<"participant", "_">> \o room_name \o <<"_">> \o identity
        \o <<"_", strftime(now), ".mp4">>

(***************************************************************************)
(* The emitter filter of record_all_emitters.                              *)
(***************************************************************************)
AudioVideo == {"AUDIO", "VIDEO"}

\* variant of active_tracks that forgets the mute flag
active_tracks_counting_muted(tracks) ==
    SelectSeq(tracks, LAMBDA t : t.type \in AudioVideo)

\* active_tracks = [t for t in tracks if not t.muted and t.type in (AUDIO, VIDEO)]
active_tracks(tracks) ==
    SelectSeq(tracks, LAMBDA t : (~t.muted) /\ t.type \in AudioVideo)

\* variant of skipped that also skips a participant exactly at the threshold
skipped_at_threshold(participant, min_tracks) ==
    Len(active_tracks(participant.tracks)) <= min_tracks

\* the loop's `continue`: len(active_tracks) < min_tracks
skipped(participant, min_tracks) ==
    Len(active_tracks(participant.tracks)) < min_tracks

(***************************************************************************)
(* asyncio.gather of the tasks with return_exceptions=True, its partition. *)
(***************************************************************************)
Pending == [state |-> "pending", egress_id |-> 0, error |-> None]
EgressInfo(id) == [state |-> "ok", egress_id |-> id, error |-> None]
Raised(msg) == [state |-> "err", egress_id |-> 0, error |-> msg]

\* variant of all_done that is satisfied by the first task that completes
first_done(infos) == \E k \in DOMAIN infos : infos[k].state # "pending"

\* gather resumes its caller when no task is outstanding
all_done(infos) == \A k \in DOMAIN infos : infos[k].state # "pending"

\* variant of successful that gives up the whole batch when one start failed
successful_or_nothing(infos) ==
    IF \E k \in DOMAIN infos : infos[k].state = "err"
    THEN <<>>
    ELSE infos

\* successful = [i for i in infos if isinstance(i, EgressInfo)]
successful(infos) == SelectSeq(infos, LAMBDA i : i.state = "ok")

\* variant of errors that keeps the first exception only
errors_first_only(infos) ==
    LET all == SelectSeq(infos, LAMBDA i : i.state = "err")
    IN  IF all = <<>> THEN <<>> ELSE <<all[1]>>

\* errors = [e for e in infos if isinstance(e, Exception)]
errors(infos) == SelectSeq(infos, LAMBDA i : i.state = "err")

\* variant of log_errors without the `if errors` guard
log_errors_always(lg, errs) == Append(lg, errs)

\* if errors: self._logger.error("Errores al iniciar egress ...", errors)
log_errors(lg, errs) == IF errs # <<>> THEN Append(lg, errs) ELSE lg

\* [i.egress_id for i in infos]
egress_ids(infos) == [k \in DOMAIN infos |-> infos[k].egress_id]

(***************************************************************************)
(* The remote media server.                                                *)
(***************************************************************************)
\* one representative track list per multiset of tracks: the filter does not
\* depend on the order of the tracks
TrackRank(t) == (IF t.muted THEN 3 ELSE 0)
                + (CASE t.type = "AUDIO" -> 0 [] t.type = "VIDEO" -> 1 [] OTHER -> 2)
TrackLists ==
    {s \in SeqsUpTo(Tracks, MaxTracks) :
        \A i \in 1..(Len(s) - 1) : TrackRank(s[i]) <= TrackRank(s[i + 1])}

\* what list_participants may answer: the first n identities, any tracks
ParticipantLists ==
    UNION {[1..n -> TrackLists] : n \in 0..Len(Identities)}
Participants(ids, tl) == [i \in DOMAIN tl |-> [identity |-> ids[i], tracks |-> tl[i]]]

\* full_record always filters with the default min_tracks: track lists no longer
\* than that threshold already make a participant qualify or not
ShortParticipantLists ==
    {tl \in ParticipantLists : \A i \in DOMAIN tl : Len(tl[i]) <= 1}

\* the server starts a recording and names it
NextEgressId == Len(srv_egress) + 1
Started(kind, room_name, identity, filepath) ==
    [egress_id |-> NextEgressId, kind |-> kind, room_name |-> room_name,
     identity |-> identity, filepath |-> filepath]

NoResponse ==
    [status |-> 0, room |-> <<>>, participants |-> <<>>, items |-> <<>>, detail |-> None]
\* raise HTTPException(status_code=code, detail=str(exc))
HttpError(code, detail) ==
    [status |-> code, room |-> <<>>, participants |-> <<>>, items |-> <<>>,
     detail |-> detail]

\* variant of creates that constructs an instance on every call
creates_always(held) == TRUE

\* client(): `if self._client_instance is None`, a LiveKitAPI is constructed
creates(held) == held = None

\* LiveKitEgressService.client(): creates the instance only when none is held
client(held) == IF held = None THEN "LiveKitAPI" ELSE held

\* the wall clock advances
Tick ==
    /\ clock < MaxClock
    /\ clock' = clock + 1

(***************************************************************************)
(* POST /egress/emitters: record_emitters_endpoint, record_all_emitters.   *)
(***************************************************************************)
\* the ParticipantEgressRequest the loop builds for one participant
emitter_request(room_name, participant, now) ==
    [room_name |-> room_name,
     identity |-> participant.identity,
     filepath |-> file_output(emitter_filename(room_name, participant.identity, now),
                              room_name)]

\* EmittersRecordIdsResponse(participants=[i.egress_id for i in infos]), 201
EmittersRecordIdsResponse(infos) ==
    [status |-> 201, room |-> <<>>, participants |-> egress_ids(infos), items |-> <<>>,
     detail |-> None]

\* the endpoint calls the service: client(), then list_participants is awaited
record_all_emitters_call ==
    /\ em_pc = "call"
    /\ client_instance' = client(client_instance)
    /\ em_pc' = "listing"
    /\ UNCHANGED <<clock, srv_egress, log, response>>
    /\ UNCHANGED <<em_room, em_min, em_listed, em_i, em_tasks, em_infos>>
    /\ UNCHANGED notEm

\* the server answers list_participants
list_participants_ok ==
    /\ em_pc = "listing"
    /\ \E ids \in IdentityLists, tl \in ParticipantLists : em_listed' = Participants(ids, tl)
    /\ em_i' = 1
    /\ em_pc' = "loop"
    /\ UNCHANGED sharedVars
    /\ UNCHANGED <<em_room, em_min, em_tasks, em_infos>>
    /\ UNCHANGED notEm

\* list_participants raises: record_all_emitters raises, the endpoint answers 500
list_participants_raises ==
    /\ em_pc = "listing"
    /\ response' = HttpError(500, "list_participants failed")
    /\ em_pc' = "done"
    /\ UNCHANGED <<clock, client_instance, srv_egress, log>>
    /\ UNCHANGED <<em_room, em_min, em_listed, em_i, em_tasks, em_infos>>
    /\ UNCHANGED notEm

\* one iteration of `for participant in participants_resp.participants`
record_all_emitters_loop ==
    /\ em_pc = "loop"
    /\ em_i <= Len(em_listed)
    /\ em_tasks' = IF skipped(em_listed[em_i], em_min)
                   THEN em_tasks
                   ELSE Append(em_tasks, emitter_request(em_room, em_listed[em_i], clock))
    /\ em_i' = em_i + 1
    /\ UNCHANGED sharedVars
    /\ UNCHANGED <<em_pc, em_room, em_min, em_listed, em_infos>>
    /\ UNCHANGED notEm

\* `if not tasks: return []`, and the endpoint answers 201 with no identifier
record_all_emitters_no_tasks ==
    /\ em_pc = "loop"
    /\ em_i > Len(em_listed)
    /\ em_tasks = <<>>
    /\ response' = EmittersRecordIdsResponse(<<>>)
    /\ em_pc' = "done"
    /\ UNCHANGED <<clock, client_instance, srv_egress, log>>
    /\ UNCHANGED <<em_room, em_min, em_listed, em_i, em_tasks, em_infos>>
    /\ UNCHANGED notEm

\* `await asyncio.gather(...)`: every start request is sent, then the call suspends
record_all_emitters_gather ==
    /\ em_pc = "loop"
    /\ em_i > Len(em_listed)
    /\ em_tasks # <<>>
    /\ em_infos' = [k \in DOMAIN em_tasks |-> Pending]
    /\ em_pc' = "gathering"
    /\ UNCHANGED sharedVars
    /\ UNCHANGED <<em_room, em_min, em_listed, em_i, em_tasks>>
    /\ UNCHANGED notEm

\* the server starts the recording of task k and answers with its EgressInfo
start_participant_egress_ok ==
    /\ em_pc = "gathering"
    /\ \E k \in DOMAIN em_infos :
          /\ em_infos[k] = Pending
          /\ srv_egress' = Append(srv_egress,
                                  Started("participant", em_tasks[k].room_name,
                                          em_tasks[k].identity, em_tasks[k].filepath))
          /\ em_infos' = [em_infos EXCEPT ![k] = EgressInfo(NextEgressId)]
    /\ UNCHANGED <<clock, client_instance, log, response>>
    /\ UNCHANGED <<em_pc, em_room, em_min, em_listed, em_i, em_tasks>>
    /\ UNCHANGED notEm

\* the start request of task k fails
start_participant_egress_raises ==
    /\ em_pc = "gathering"
    /\ \E k \in DOMAIN em_infos :
          /\ em_infos[k] = Pending
          /\ em_infos' = [em_infos EXCEPT
                            ![k] = Raised("start failed: task " \o ToString(k))]
    /\ UNCHANGED sharedVars
    /\ UNCHANGED <<em_pc, em_room, em_min, em_listed, em_i, em_tasks>>
    /\ UNCHANGED notEm

\* gather returns: partition, log the errors, return `successful`; the endpoint
\* answers 201 with the identifiers
record_all_emitters_return ==
    /\ em_pc = "gathering"
    /\ all_done(em_infos)
    /\ log' = log_errors(log, errors(em_infos))
    /\ response' = EmittersRecordIdsResponse(successful(em_infos))
    /\ em_pc' = "done"
    /\ UNCHANGED <<clock, client_instance, srv_egress>>
    /\ UNCHANGED <<em_room, em_min, em_listed, em_i, em_tasks, em_infos>>
    /\ UNCHANGED notEm

\* the clock advances while the request is served
EmittersTick ==
    /\ em_pc \notin {"idle", "done"}
    /\ Tick
    /\ UNCHANGED <<client_instance, srv_egress, log, response>>
    /\ UNCHANGED emVars
    /\ UNCHANGED notEm

(***************************************************************************)
(* POST /egress/full: full_record_endpoint, full_record, record_room2,     *)
(* record_all_emitters2.  full_record creates the two tasks and awaits     *)
(* asyncio.gather(room_task, emitters_task), which raises as soon as one   *)
(* task raises and leaves the other task running.                          *)
(***************************************************************************)
\* f"full/{room_name}_{now}"
full_prefix(room_name, now) == <<"full", "/">> \o room_name \o <<"_", strftime(now)>>

\* f"room_{room_name}_{now}.mp4"
room_filename(room_name, now) == <<"room", "_">> \o room_name \o <<"_", strftime(now), ".mp4">>

\* the two reads of datetime.now() in one statement sequence: the second read
\* is the first or a later second
LaterReads(now) == {t \in now..(now + 1) : t <= MaxClock}

\* the RoomCompositeEgressRequest of record_room2
room2_request(room_name, now_prefix, now_filename) ==
    [room_name |-> room_name,
     identity |-> <<>>,
     filepath |-> file_output(room_filename(room_name, now_filename),
                              full_prefix(room_name, now_prefix))]

\* the ParticipantEgressRequest of record_all_emitters2
emitter2_request(room_name, participant, now_filename, now_prefix) ==
    [room_name |-> room_name,
     identity |-> participant.identity,
     filepath |-> file_output(emitter_filename(room_name, participant.identity, now_filename),
                              full_prefix(room_name, now_prefix))]

\* variant of gather that tolerates a failure of the emitter branch
gather_strict_on_room_only(room_task, emitters_task) ==
    IF room_task = "err" THEN "raise"
    ELSE IF room_task = "ok" /\ emitters_task \in {"ok", "err"} THEN "return"
    ELSE "wait"

\* variant of gather with return_exceptions=True
gather_lenient(room_task, emitters_task) ==
    IF room_task \in {"ok", "err"} /\ emitters_task \in {"ok", "err"}
    THEN "return"
    ELSE "wait"

\* await asyncio.gather(room_task, emitters_task): raise on the first task that
\* raised, return when both returned, wait otherwise
gather(room_task, emitters_task) ==
    IF room_task = "err" \/ emitters_task = "err" THEN "raise"
    ELSE IF room_task = "ok" /\ emitters_task = "ok" THEN "return"
    ELSE "wait"

\* FullRecordResponse(room=[room_info.egress_id], participants=[...]), 201
FullRecordResponse(room_info, emitter_infos) ==
    [status |-> 201, room |-> <<room_info.egress_id>>,
     participants |-> egress_ids(emitter_infos), items |-> <<>>, detail |-> None]

\* default of record_all_emitters2's min_tracks, which full_record does not pass
DefaultMinTracks == 1

\* full_record: the two create_task calls, then the await of gather suspends it
full_record_call ==
    /\ fr_pc = "call"
    /\ fr_room_task' = "ready"
    /\ fr_em_task' = "ready"
    /\ fr_pc' = "gather"
    /\ UNCHANGED sharedVars
    /\ UNCHANGED <<fr_room, fr_room_req, fr_room_info, fr_listed, fr_i, fr_tasks,
                   fr_infos, fr_emitter_infos>>
    /\ UNCHANGED notFr

\* room_task runs first: record_room2 up to its await of the start request
record_room2_run ==
    /\ fr_room_task = "ready"
    /\ \E now2 \in LaterReads(clock) :
          /\ fr_room_req' = room2_request(fr_room, clock, now2)
          /\ clock' = now2
    /\ client_instance' = client(client_instance)
    /\ fr_room_task' = "awaiting"
    /\ UNCHANGED <<srv_egress, log, response>>
    /\ UNCHANGED <<fr_pc, fr_room, fr_room_info, fr_em_task, fr_listed, fr_i, fr_tasks,
                   fr_infos, fr_emitter_infos>>
    /\ UNCHANGED notFr

\* emitters_task runs next: record_all_emitters2 up to its await of list_participants
record_all_emitters2_run ==
    /\ fr_em_task = "ready"
    /\ fr_room_task # "ready"
    /\ client_instance' = client(client_instance)
    /\ fr_em_task' = "listing"
    /\ UNCHANGED <<clock, srv_egress, log, response>>
    /\ UNCHANGED <<fr_pc, fr_room, fr_room_task, fr_room_req, fr_room_info, fr_listed,
                   fr_i, fr_tasks, fr_infos, fr_emitter_infos>>
    /\ UNCHANGED notFr

\* the server starts the room-composite recording and answers
start_room_composite_egress_ok ==
    /\ fr_room_task = "awaiting"
    /\ fr_em_task # "ready"
    /\ srv_egress' = Append(srv_egress,
                            Started("room_composite", fr_room_req.room_name, None,
                                    fr_room_req.filepath))
    /\ fr_room_info' = EgressInfo(NextEgressId)
    /\ fr_room_task' = "ok"
    /\ UNCHANGED <<clock, client_instance, log, response>>
    /\ UNCHANGED <<fr_pc, fr_room, fr_room_req, fr_em_task, fr_listed, fr_i, fr_tasks,
                   fr_infos, fr_emitter_infos>>
    /\ UNCHANGED notFr

\* the room-composite start request fails: record_room2 raises
start_room_composite_egress_raises ==
    /\ fr_room_task = "awaiting"
    /\ fr_em_task # "ready"
    /\ fr_room_info' = Raised("start_room_composite_egress failed")
    /\ fr_room_task' = "err"
    /\ UNCHANGED sharedVars
    /\ UNCHANGED <<fr_pc, fr_room, fr_room_req, fr_em_task, fr_listed, fr_i, fr_tasks,
                   fr_infos, fr_emitter_infos>>
    /\ UNCHANGED notFr

\* the server answers list_participants
list_participants2_ok ==
    /\ fr_em_task = "listing"
    /\ \E ids \in IdentityLists, tl \in ShortParticipantLists :
          fr_listed' = Participants(ids, tl)
    /\ fr_i' = 1
    /\ fr_em_task' = "loop"
    /\ UNCHANGED sharedVars
    /\ UNCHANGED <<fr_pc, fr_room, fr_room_task, fr_room_req, fr_room_info, fr_tasks,
                   fr_infos, fr_emitter_infos>>
    /\ UNCHANGED notFr

\* list_participants raises: record_all_emitters2 raises
list_participants2_raises ==
    /\ fr_em_task = "listing"
    /\ fr_em_task' = "err"
    /\ UNCHANGED sharedVars
    /\ UNCHANGED <<fr_pc, fr_room, fr_room_task, fr_room_req, fr_room_info, fr_listed,
                   fr_i, fr_tasks, fr_infos, fr_emitter_infos>>
    /\ UNCHANGED notFr

\* one iteration of the loop of record_all_emitters2: filename, then prefix
record_all_emitters2_loop ==
    /\ fr_em_task = "loop"
    /\ fr_i <= Len(fr_listed)
    /\ IF skipped(fr_listed[fr_i], DefaultMinTracks)
       THEN UNCHANGED <<fr_tasks, clock>>
       ELSE \E now2 \in LaterReads(clock) :
               /\ fr_tasks' = Append(fr_tasks,
                                     emitter2_request(fr_room, fr_listed[fr_i], clock, now2))
               /\ clock' = now2
    /\ fr_i' = fr_i + 1
    /\ UNCHANGED <<client_instance, srv_egress, log, response>>
    /\ UNCHANGED <<fr_pc, fr_room, fr_room_task, fr_room_req, fr_room_info, fr_em_task,
                   fr_listed, fr_infos, fr_emitter_infos>>
    /\ UNCHANGED notFr

\* `if not tasks: return []`
record_all_emitters2_no_tasks ==
    /\ fr_em_task = "loop"
    /\ fr_i > Len(fr_listed)
    /\ fr_tasks = <<>>
    /\ fr_emitter_infos' = <<>>
    /\ fr_em_task' = "ok"
    /\ UNCHANGED sharedVars
    /\ UNCHANGED <<fr_pc, fr_room, fr_room_task, fr_room_req, fr_room_info, fr_listed,
                   fr_i, fr_tasks, fr_infos>>
    /\ UNCHANGED notFr

\* the inner gather: every participant start request is sent
record_all_emitters2_gather ==
    /\ fr_em_task = "loop"
    /\ fr_i > Len(fr_listed)
    /\ fr_tasks # <<>>
    /\ fr_infos' = [k \in DOMAIN fr_tasks |-> Pending]
    /\ fr_em_task' = "gathering"
    /\ UNCHANGED sharedVars
    /\ UNCHANGED <<fr_pc, fr_room, fr_room_task, fr_room_req, fr_room_info, fr_listed,
                   fr_i, fr_tasks, fr_emitter_infos>>
    /\ UNCHANGED notFr

\* the server starts the recording of task k and answers
start_participant_egress2_ok ==
    /\ fr_em_task = "gathering"
    /\ \E k \in DOMAIN fr_infos :
          /\ fr_infos[k] = Pending
          /\ srv_egress' = Append(srv_egress,
                                  Started("participant", fr_tasks[k].room_name,
                                          fr_tasks[k].identity, fr_tasks[k].filepath))
          /\ fr_infos' = [fr_infos EXCEPT ![k] = EgressInfo(NextEgressId)]
    /\ UNCHANGED <<clock, client_instance, log, response>>
    /\ UNCHANGED <<fr_pc, fr_room, fr_room_task, fr_room_req, fr_room_info, fr_em_task,
                   fr_listed, fr_i, fr_tasks, fr_emitter_infos>>
    /\ UNCHANGED notFr

\* the start request of task k fails
start_participant_egress2_raises ==
    /\ fr_em_task = "gathering"
    /\ \E k \in DOMAIN fr_infos :
          /\ fr_infos[k] = Pending
          /\ fr_infos' = [fr_infos EXCEPT
                            ![k] = Raised("start failed: task " \o ToString(k))]
    /\ UNCHANGED sharedVars
    /\ UNCHANGED <<fr_pc, fr_room, fr_room_task, fr_room_req, fr_room_info, fr_em_task,
                   fr_listed, fr_i, fr_tasks, fr_emitter_infos>>
    /\ UNCHANGED notFr

\* the inner gather returns: partition, log the errors, return `successful`
record_all_emitters2_return ==
    /\ fr_em_task = "gathering"
    /\ all_done(fr_infos)
    /\ log' = log_errors(log, errors(fr_infos))
    /\ fr_emitter_infos' = successful(fr_infos)
    /\ fr_em_task' = "ok"
    /\ UNCHANGED <<clock, client_instance, srv_egress, response>>
    /\ UNCHANGED <<fr_pc, fr_room, fr_room_task, fr_room_req, fr_room_info, fr_listed,
                   fr_i, fr_tasks, fr_infos>>
    /\ UNCHANGED notFr

\* gather returned both results: full_record returns, the endpoint answers 201
full_record_return ==
    /\ fr_pc = "gather"
    /\ gather(fr_room_task, fr_em_task) = "return"
    /\ response' = FullRecordResponse(fr_room_info, fr_emitter_infos)
    /\ fr_pc' = "done"
    /\ UNCHANGED <<clock, client_instance, srv_egress, log>>
    /\ UNCHANGED <<fr_room, fr_room_task, fr_room_req, fr_room_info, fr_em_task,
                   fr_listed, fr_i, fr_tasks, fr_infos, fr_emitter_infos>>
    /\ UNCHANGED notFr

\* gather raised: full_record raises, the endpoint answers 500
full_record_raises ==
    /\ fr_pc = "gather"
    /\ gather(fr_room_task, fr_em_task) = "raise"
    /\ response' = HttpError(500, "full_record failed")
    /\ fr_pc' = "done"
    /\ UNCHANGED <<clock, client_instance, srv_egress, log>>
    /\ UNCHANGED <<fr_room, fr_room_task, fr_room_req, fr_room_info, fr_em_task,
                   fr_listed, fr_i, fr_tasks, fr_infos, fr_emitter_infos>>
    /\ UNCHANGED notFr

\* the clock advances while a step of the request is still to run
FullTick ==
    /\ \/ fr_pc \in {"call", "gather"}
       \/ fr_room_task \in {"ready", "awaiting"}
       \/ fr_em_task \in {"ready", "listing", "loop", "gathering"}
    /\ Tick
    /\ UNCHANGED <<client_instance, srv_egress, log, response>>
    /\ UNCHANGED frVars
    /\ UNCHANGED notFr

(***************************************************************************)
(* POST /egress/stop/by-ids: stop_recordings_by_ids and its stop_one tasks *)
(* over LiveKitEgressService.stop_recording.                               *)
(***************************************************************************)
\* the remote server's answer to stop_egress for an egress in state st: the
\* errors it may raise (the transport may fail for any request)
StopErrors(st) ==
    CASE st = "EGRESS_ACTIVE" -> {"unavailable"}
      [] st = "unknown" -> {"not_found", "failed_precondition", "unavailable"}
      [] OTHER -> {"failed_precondition", "unavailable"}

NotCalled == [state |-> "pending", status |-> None, error |-> None]
Stopped(status) == [state |-> "ok", status |-> status, error |-> None]
StopRaised(code) == [state |-> "err", status |-> None, error |-> code]

NoResult == [egress_id |-> None, status |-> None, error |-> None, message |-> None]

\* stop_one: the StopRecordingsResponse for one identifier, from the outcome of
\* service.stop_recording (the message in ASCII; the error is str(exc), the text
\* of the remote error)
stop_one(egress_id, outcome) ==
    IF outcome.state = "ok"
    THEN [egress_id |-> egress_id, status |-> outcome.status, error |-> None,
          message |-> "Grabacion detenida correctamente"]
    ELSE [egress_id |-> egress_id, status |-> None,
          error |-> "TwirpError: " \o outcome.error, message |-> None]

\* variant of gather_in_order that yields the results as the tasks complete
gather_as_completed(results, completed) ==
    [i \in DOMAIN completed |-> results[completed[i]]]

\* results = await asyncio.gather over the stop_one tasks: one result per task, at
\* the position of the task, whatever the order of completion
gather_in_order(results, completed) == results

\* variant of stop_recordings_response that drops the failed stops
stop_recordings_response_without_failed(results) ==
    [status |-> 200, room |-> <<>>, participants |-> <<>>,
     items |-> SelectSeq(results, LAMBDA r : r.error = None), detail |-> None]

\* `return results` as List[StopRecordingsResponse], 200
stop_recordings_response(results) ==
    [status |-> 200, room |-> <<>>, participants |-> <<>>, items |-> results,
     detail |-> None]

\* the payloads: the two lists hold at most MaxIds identifiers together
StopPayloads ==
    {pl \in SeqsUpTo(EgressIds, MaxIds) \X SeqsUpTo(EgressIds, MaxIds) :
        Len(pl[1]) + Len(pl[2]) <= MaxIds}

\* all_ids = payload.room + payload.participants; gather starts one stop_one task
\* per identifier, and each runs to its await of stop_egress
stop_recordings_by_ids_call ==
    /\ sm_pc = "call"
    /\ LET all_ids == sm_room \o sm_participants
       IN  /\ sm_calls' = [k \in DOMAIN all_ids |-> NotCalled]
           /\ sm_results' = [k \in DOMAIN all_ids |-> NoResult]
           /\ srv_stops' = all_ids
           /\ client_instance' = IF all_ids = <<>> THEN client_instance
                                 ELSE client(client_instance)
    /\ sm_pc' = "gather"
    /\ UNCHANGED <<clock, srv_egress, log, response>>
    /\ UNCHANGED <<sm_room, sm_participants, sm_completed, srv_status>>
    /\ UNCHANGED notSm

\* the server stops the egress of task k and answers with its EgressInfo
stop_egress_ok ==
    /\ sm_pc = "gather"
    /\ \E k \in DOMAIN sm_calls :
          /\ sm_calls[k] = NotCalled
          /\ srv_status[srv_stops[k]] = "EGRESS_ACTIVE"
          /\ srv_status' = [srv_status EXCEPT ![srv_stops[k]] = "EGRESS_ENDING"]
          /\ sm_calls' = [sm_calls EXCEPT ![k] = Stopped("EGRESS_ENDING")]
          /\ sm_results' = [sm_results EXCEPT
                              ![k] = stop_one(srv_stops[k], Stopped("EGRESS_ENDING"))]
          /\ sm_completed' = Append(sm_completed, k)
    /\ UNCHANGED sharedVars
    /\ UNCHANGED <<sm_pc, sm_room, sm_participants, srv_stops>>
    /\ UNCHANGED notSm

\* the stop request of task k fails: stop_recording raises inside stop_one
stop_egress_raises ==
    /\ sm_pc = "gather"
    /\ \E k \in DOMAIN sm_calls :
          /\ sm_calls[k] = NotCalled
          /\ \E code \in StopErrors(srv_status[srv_stops[k]]) :
                /\ sm_calls' = [sm_calls EXCEPT ![k] = StopRaised(code)]
                /\ sm_results' = [sm_results EXCEPT
                                    ![k] = stop_one(srv_stops[k], StopRaised(code))]
          /\ sm_completed' = Append(sm_completed, k)
    /\ UNCHANGED sharedVars
    /\ UNCHANGED <<sm_pc, sm_room, sm_participants, srv_status, srv_stops>>
    /\ UNCHANGED notSm

\* every task completed: gather returns the results, the endpoint answers 200
stop_recordings_by_ids_return ==
    /\ sm_pc = "gather"
    /\ \A k \in DOMAIN sm_calls : sm_calls[k] # NotCalled
    /\ response' = stop_recordings_response(gather_in_order(sm_results, sm_completed))
    /\ sm_pc' = "done"
    /\ UNCHANGED <<clock, client_instance, srv_egress, log>>
    /\ UNCHANGED <<sm_room, sm_participants, sm_calls, sm_results, sm_completed,
                   srv_status, srv_stops>>
    /\ UNCHANGED notSm

(***************************************************************************)
(* POST /egress/stop: stop_recording_endpoint over stop_recording and, in  *)
(* its failed_precondition branch, list_recordings.                        *)
(***************************************************************************)
\* the state of stop-many other than the server's egress states
smRequest == <<sm_pc, sm_room, sm_participants, sm_calls, sm_results, sm_completed,
               srv_stops>>

\* the EgressInfo the server holds for an identifier, with a given status
SrvEgressInfo(id, status) ==
    [egress_id |-> id, room_name |-> srv_records[id].room_name, status |-> status,
     started_at |-> srv_records[id].started_at, ended_at |-> srv_records[id].ended_at,
     error |-> ""]

\* ListEgressRequest(): resp.items, every egress the server knows
list_egress ==
    SelectSeq([i \in DOMAIN EgressIdOrder |->
                  SrvEgressInfo(EgressIdOrder[i], srv_status[EgressIdOrder[i]])],
              LAMBDA info : info.status # "unknown")

\* datetime.fromtimestamp(ns / 1e9, tz=utc).astimezone(LOCAL_TZ).isoformat()
isoformat(ns) == "ISO" \o ToString(ns)

\* variant of info_to_response that converts an unset timestamp like any other
info_to_response_epoch(info) ==
    [egress_id |-> info.egress_id,
     room_name |-> info.room_name,
     status |-> info.status,
     started_at |-> isoformat(info.started_at),
     ended_at |-> isoformat(info.ended_at),
     error |-> info.error,
     message |-> None]

\* info_to_response: a timestamp that is unset (0) stays None; one try statement
\* holds both conversions, so the first that raises ends it and what was not
\* assigned yet stays None
info_to_response(info) ==
    LET started_raises == info.started_at # 0 /\ info.started_at \in unconvertible
        ended_raises == info.ended_at # 0 /\ info.ended_at \in unconvertible
    IN  [egress_id |-> info.egress_id,
         room_name |-> info.room_name,
         status |-> info.status,
         started_at |-> IF info.started_at # 0 /\ ~started_raises
                        THEN isoformat(info.started_at) ELSE None,
         ended_at |-> IF ~started_raises /\ info.ended_at # 0 /\ ~ended_raises
                      THEN isoformat(info.ended_at) ELSE None,
         error |-> info.error,
         message |-> None]

\* resp.message = message; return resp, as a 200 answer
EgressInfoResponse(info, message) ==
    [status |-> 200, room |-> <<>>, participants |-> <<>>,
     items |-> <<[info_to_response(info) EXCEPT !.message = message]>>,
     detail |-> None]

\* an exception that leaves the handler unconverted: the framework answers 500
\* "Internal Server Error" with no detail
InternalServerError ==
    [status |-> 500, room |-> <<>>, participants |-> <<>>, items |-> <<>>,
     detail |-> None]

\* variant of existing that takes the first record whatever its identifier
existing_first_listed(all_recordings, egress_id) ==
    IF all_recordings = <<>> THEN <<>> ELSE <<all_recordings[1]>>

\* existing = next((r for r in all_recordings if r.egress_id == egress_id), None):
\* the empty sequence stands for None
existing(all_recordings, egress_id) ==
    LET matching == SelectSeq(all_recordings, LAMBDA r : r.egress_id = egress_id)
    IN  IF matching = <<>> THEN <<>> ELSE <<matching[1]>>

\* the endpoint calls service.stop_recording: client(), then stop_egress is awaited
stop_recording_endpoint_call ==
    /\ so_pc = "call"
    /\ client_instance' = client(client_instance)
    /\ so_pc' = "stopping"
    /\ UNCHANGED <<clock, srv_egress, log, response>>
    /\ UNCHANGED <<so_id, so_stop, so_listed, srv_records, unconvertible>>
    /\ UNCHANGED <<smRequest, srv_status>>
    /\ UNCHANGED notSo

\* the server stops the egress: the endpoint answers 200 with the success message
stop_recording_ok ==
    /\ so_pc = "stopping"
    /\ srv_status[so_id] = "EGRESS_ACTIVE"
    /\ srv_status' = [srv_status EXCEPT ![so_id] = "EGRESS_ENDING"]
    /\ so_stop' = Stopped("EGRESS_ENDING")
    /\ response' = EgressInfoResponse(SrvEgressInfo(so_id, "EGRESS_ENDING"),
                                      "Grabacion detenida correctamente")
    /\ so_pc' = "done"
    /\ UNCHANGED <<clock, client_instance, srv_egress, log>>
    /\ UNCHANGED <<so_id, so_listed, srv_records, unconvertible>>
    /\ UNCHANGED smRequest
    /\ UNCHANGED notSo

\* stop_egress raises TwirpError failed_precondition: list_recordings is awaited
stop_recording_failed_precondition ==
    /\ so_pc = "stopping"
    /\ "failed_precondition" \in StopErrors(srv_status[so_id])
    /\ so_stop' = StopRaised("failed_precondition")
    /\ so_pc' = "listing"
    /\ UNCHANGED sharedVars
    /\ UNCHANGED <<so_id, so_listed, srv_records, unconvertible>>
    /\ UNCHANGED <<smRequest, srv_status>>
    /\ UNCHANGED notSo

\* stop_egress raises a TwirpError with another code: 500 with str(exc)
stop_recording_twirp_error ==
    /\ so_pc = "stopping"
    /\ \E code \in StopErrors(srv_status[so_id]) \ {"failed_precondition"} :
          /\ so_stop' = StopRaised(code)
          /\ response' = HttpError(500, "TwirpError: " \o code)
    /\ so_pc' = "done"
    /\ UNCHANGED <<clock, client_instance, srv_egress, log>>
    /\ UNCHANGED <<so_id, so_listed, srv_records, unconvertible>>
    /\ UNCHANGED <<smRequest, srv_status>>
    /\ UNCHANGED notSo

\* stop_egress raises an exception that is no TwirpError: 500 with str(exc)
stop_recording_exception ==
    /\ so_pc = "stopping"
    /\ so_stop' = StopRaised("ClientConnectionError")
    /\ response' = HttpError(500, "ClientConnectionError")
    /\ so_pc' = "done"
    /\ UNCHANGED <<clock, client_instance, srv_egress, log>>
    /\ UNCHANGED <<so_id, so_listed, srv_records, unconvertible>>
    /\ UNCHANGED <<smRequest, srv_status>>
    /\ UNCHANGED notSo

\* list_recordings answers: the record of the identifier is returned with the
\* already-finished message, or 404 when the list holds none
stop_recording_list_ok ==
    /\ so_pc = "listing"
    /\ so_listed' = list_egress
    /\ LET found == existing(list_egress, so_id)
       IN  response' = IF found # <<>>
                       THEN EgressInfoResponse(found[1], "La grabacion ya estaba finalizada")
                       ELSE HttpError(404, "Egress " \o so_id \o " no encontrado")
    /\ so_pc' = "done"
    /\ UNCHANGED <<clock, client_instance, srv_egress, log>>
    /\ UNCHANGED <<so_id, so_stop, srv_records, unconvertible>>
    /\ UNCHANGED <<smRequest, srv_status>>
    /\ UNCHANGED notSo

\* list_recordings raises inside the `except TwirpError` block, where no handler
\* catches it: the exception leaves the endpoint
stop_recording_list_raises ==
    /\ so_pc = "listing"
    /\ response' = InternalServerError
    /\ so_pc' = "raised"
    /\ UNCHANGED <<clock, client_instance, srv_egress, log>>
    /\ UNCHANGED <<so_id, so_stop, so_listed, srv_records, unconvertible>>
    /\ UNCHANGED <<smRequest, srv_status>>
    /\ UNCHANGED notSo

(***************************************************************************)
(* GET /egress/list/by-room/{room_name}: list_recordings_by_room_endpoint  *)
(* over list_recordings_by_room.  The state of the server is fixed; the    *)
(* same room is listed once with each value of active_only.                *)
(***************************************************************************)
NoRequest == [room_name |-> <<>>, active |-> FALSE]

\* variant of list_egress_request that sets `active` when active_only is false
list_egress_request_inverted(room_name, active_only) ==
    [room_name |-> room_name, active |-> ~active_only]

\* req = ListEgressRequest(room_name=room_name); if active_only: req.active = True
list_egress_request(room_name, active_only) ==
    [room_name |-> room_name, active |-> active_only]

\* the server's answer to a ListEgressRequest: the egress of the room, and with
\* `active` only those that have not ended
ActiveStatuses == {"EGRESS_STARTING", "EGRESS_ACTIVE", "EGRESS_ENDING"}
list_egress_of(req) ==
    SelectSeq(list_egress,
              LAMBDA info : /\ info.room_name = req.room_name
                            /\ req.active => info.status \in ActiveStatuses)

\* data["file_results"][0] of MessageToDict(item), or {}: a finished egress has one
\* file result, which carries the timestamps of the recording; an int64 field is
\* rendered as a decimal string and left out when it is 0, and .get gives None
file_info(item) ==
    IF item.status = "EGRESS_COMPLETE"
    THEN [started_at |-> IF item.started_at # 0 THEN ToString(item.started_at) ELSE None,
          ended_at |-> IF item.ended_at # 0 THEN ToString(item.ended_at) ELSE None]
    ELSE [started_at |-> None, ended_at |-> None]

\* the entry of `cleaned` for one item: MessageToDict leaves out a field that holds
\* its default, so the first status of the enumeration reads as None
cleaned(item) ==
    [egress_id |-> item.egress_id,
     room_name |-> item.room_name,
     status |-> IF item.status = "EGRESS_STARTING" THEN None ELSE item.status,
     started_at |-> file_info(item).started_at,
     ended_at |-> file_info(item).ended_at]

\* a request arrives: the room is listed with a value of active_only not asked yet
list_recordings_by_room_request ==
    /\ ls_pc \in {"ready", "done"}
    /\ \E active_only \in BOOLEAN :
          /\ ls_answers[active_only] = NoResponse
          /\ ls_active_only' = active_only
    /\ response' = NoResponse
    /\ ls_pc' = "call"
    /\ UNCHANGED <<clock, client_instance, srv_egress, log>>
    /\ UNCHANGED <<ls_room, ls_req, ls_answers>>
    /\ UNCHANGED notLs

\* the endpoint calls the service: the request is built and list_egress is awaited
list_recordings_by_room_call ==
    /\ ls_pc = "call"
    /\ client_instance' = client(client_instance)
    /\ ls_req' = list_egress_request(ls_room, ls_active_only)
    /\ ls_pc' = "listing"
    /\ UNCHANGED <<clock, srv_egress, log, response>>
    /\ UNCHANGED <<ls_room, ls_active_only, ls_answers>>
    /\ UNCHANGED notLs

\* the server answers: the endpoint returns the cleaned items, 200
list_recordings_by_room_ok ==
    /\ ls_pc = "listing"
    /\ LET items == list_egress_of(ls_req)
           answer == [status |-> 200, room |-> <<>>, participants |-> <<>>,
                      items |-> [i \in DOMAIN items |-> cleaned(items[i])],
                      detail |-> None]
       IN  /\ response' = answer
           /\ ls_answers' = [ls_answers EXCEPT ![ls_active_only] = answer]
    /\ ls_pc' = "done"
    /\ UNCHANGED <<clock, client_instance, srv_egress, log>>
    /\ UNCHANGED <<ls_room, ls_active_only, ls_req>>
    /\ UNCHANGED notLs

\* list_egress raises: the endpoint answers 500 with str(exc)
list_recordings_by_room_raises ==
    /\ ls_pc = "listing"
    /\ response' = HttpError(500, "list_egress failed")
    /\ ls_answers' = [ls_answers EXCEPT ![ls_active_only] = HttpError(500, "list_egress failed")]
    /\ ls_pc' = "done"
    /\ UNCHANGED <<clock, client_instance, srv_egress, log>>
    /\ UNCHANGED <<ls_room, ls_active_only, ls_req>>
    /\ UNCHANGED notLs

\* GET /egress: list_recordings_endpoint calls service.list_recordings, client()
\* and then list_egress is awaited
list_recordings_endpoint_call ==
    /\ ls_pc = "ready"
    /\ client_instance' = client(client_instance)
    /\ ls_pc' = "listing all"
    /\ UNCHANGED <<clock, srv_egress, log, response>>
    /\ UNCHANGED <<ls_room, ls_active_only, ls_req, ls_answers>>
    /\ UNCHANGED notLs

\* the server answers: return [info_to_response(i) for i in infos], 200
list_recordings_ok ==
    /\ ls_pc = "listing all"
    /\ response' = [status |-> 200, room |-> <<>>, participants |-> <<>>,
                    items |-> [i \in DOMAIN list_egress |->
                                  info_to_response(list_egress[i])],
                    detail |-> None]
    /\ ls_pc' = "all listed"
    /\ UNCHANGED <<clock, client_instance, srv_egress, log>>
    /\ UNCHANGED <<ls_room, ls_active_only, ls_req, ls_answers>>
    /\ UNCHANGED notLs

\* list_egress raises: the endpoint answers 500 with str(exc)
list_recordings_raises ==
    /\ ls_pc = "listing all"
    /\ response' = HttpError(500, "list_egress failed")
    /\ ls_pc' = "all listed"
    /\ UNCHANGED <<clock, client_instance, srv_egress, log>>
    /\ UNCHANGED <<ls_room, ls_active_only, ls_req, ls_answers>>
    /\ UNCHANGED notLs

(***************************************************************************)
(* POST /egress/room and POST /egress/participant: record_room_endpoint    *)
(* over record_room, record_participant_endpoint over record_participant.  *)
(***************************************************************************)
\* the strings a payload may carry: non-empty, path separators allowed
NameTokens == SeqsUpTo({"x", "/"}, MaxNameLen) \ {<<>>}

\* f"participant_{identity}_{room_name}_{now}.mp4"
participant_filename(identity, room_name, now) ==
    <<"participant", "_">> \o identity \o <<"_">> \o room_name
        \o <<"_", strftime(now), ".mp4">>

\* record_room: filename = filename or f"room_{room_name}_{now}.mp4"
record_room_filename(room_name, filename, now) ==
    IF filename # <<>> THEN filename ELSE room_filename(room_name, now)

\* the egress request of a single start: file_prefix is "Rooms" / "Participants"
record_request(room_name, identity, filename, file_prefix) ==
    [room_name |-> room_name,
     identity |-> identity,
     filepath |-> file_output(filename, IF file_prefix # <<>> THEN file_prefix
                                        ELSE room_name)]

\* format_egress_response(info), returned with the endpoint's status code 201
format_egress_response(info) ==
    [status |-> 201, room |-> <<>>, participants |-> <<>>,
     items |-> <<[status |-> 200, message |-> "Grabacion iniciada correctamente",
                  room_name |-> info.room_name, identity |-> info.identity,
                  egress_id |-> info.egress_id]>>,
     detail |-> None]

\* variant of record_except that calls the service once more
record_except_retrying(exc) == [pc |-> "call", response |-> NoResponse]

\* `except Exception as exc: raise HTTPException(status_code=500, detail=str(exc))`
record_except(exc) == [pc |-> "done", response |-> HttpError(500, exc)]

\* record_room_endpoint calls record_room: the file name, client(), and the
\* start_room_composite_egress request is sent
record_room_endpoint_call ==
    /\ st_pc = "call"
    /\ st_kind = "room"
    /\ LET filename == record_room_filename(st_room, st_filename, clock)
       IN  /\ st_file' = filename
           /\ st_req' = record_request(st_room, <<>>, filename, <<"Rooms">>)
    /\ client_instance' = client(client_instance)
    /\ st_sent' = st_sent + 1
    /\ st_pc' = "starting"
    /\ UNCHANGED <<clock, srv_egress, log, response>>
    /\ UNCHANGED <<st_kind, st_room, st_identity, st_filename>>
    /\ UNCHANGED notSt

\* record_participant_endpoint calls record_participant: the file name, client(),
\* and the start_participant_egress request is sent
record_participant_endpoint_call ==
    /\ st_pc = "call"
    /\ st_kind = "participant"
    /\ LET filename == participant_filename(st_identity, st_room, clock)
       IN  /\ st_file' = filename
           /\ st_req' = record_request(st_room, st_identity, filename, <<"Participants">>)
    /\ client_instance' = client(client_instance)
    /\ st_sent' = st_sent + 1
    /\ st_pc' = "starting"
    /\ UNCHANGED <<clock, srv_egress, log, response>>
    /\ UNCHANGED <<st_kind, st_room, st_identity, st_filename>>
    /\ UNCHANGED notSt

\* the server starts the recording: the endpoint answers 201
record_endpoint_ok ==
    /\ st_pc = "starting"
    /\ LET info == Started(IF st_kind = "room" THEN "room_composite" ELSE "participant",
                           st_req.room_name, st_req.identity, st_req.filepath)
       IN  /\ srv_egress' = Append(srv_egress, info)
           /\ response' = format_egress_response(info)
    /\ st_pc' = "done"
    /\ UNCHANGED <<clock, client_instance, log>>
    /\ UNCHANGED <<st_kind, st_room, st_identity, st_filename, st_file, st_req, st_sent>>
    /\ UNCHANGED notSt

\* the start request fails: the service raises, the endpoint answers 500
record_endpoint_raises ==
    /\ st_pc = "starting"
    /\ st_pc' = record_except("start failed").pc
    /\ response' = record_except("start failed").response
    /\ UNCHANGED <<clock, client_instance, srv_egress, log>>
    /\ UNCHANGED <<st_kind, st_room, st_identity, st_filename, st_file, st_req, st_sent>>
    /\ UNCHANGED notSt

(***************************************************************************)
(* POST /participants/token: generate_token_endpoint over                  *)
(* LiveKitParticipantService.generate_token and room_exists.               *)
(***************************************************************************)
\* ttl_seconds = 86400 when the caller gives none
DefaultTtlSeconds == 86400

\* str.lower, on the role strings a client sends
lower(v) ==
    CASE v = "Emitter" -> "emitter"
      [] v = "VIEWER" -> "viewer"
      [] v = "Admin" -> "admin"
      [] OTHER -> v

\* every role publishes
is_emitter_any_role(role) == TRUE

\* is_emitter = (role == ROLE_EMITTER)
is_emitter(role) == role = "emitter"

\* the AccessToken generate_token signs: identity, name, metadata, grants, ttl
AccessToken(room_name, identity, role, ttl_seconds) ==
    [identity |-> identity,
     name |-> identity,
     metadata |-> [role |-> role],
     room |-> room_name,
     room_join |-> TRUE,
     can_subscribe |-> TRUE,
     can_publish |-> is_emitter(role),
     ttl |-> ttl_seconds]

\* `if ttl_seconds is None: ttl_seconds = 86400`: any other integer is kept as given
ttl_or_default(ttl_seconds) ==
    IF ttl_seconds = <<>> THEN DefaultTtlSeconds ELSE ttl_seconds[1]

\* the TokenResult generate_token returns for a known role and an existing room
TokenResult(room_name, identity, role, ttl_seconds, now) ==
    [status |-> "success", message |-> "Token generated successfully",
     identity |-> identity,
     token |-> AccessToken(room_name, identity, role, ttl_or_default(ttl_seconds)),
     expiration_date |-> now + ttl_or_default(ttl_seconds)]

\* TokenResponse of token_result_to_response, 201: TokenRequest has no ttl_seconds
TokenResponse(room_name, identity, role, now) ==
    [status |-> 201, room |-> <<>>, participants |-> <<>>,
     items |-> <<TokenResult(room_name, identity, role, <<>>, now)>>,
     detail |-> None]

\* the answer of FastAPI to a payload whose role, lower-cased, is not in
\* Literal[ROLE_EMITTER, ROLE_VIEWER]
role_rejected ==
    HttpError(422, "Input should be 'emitter' or 'viewer'")

\* `if not await self.room_exists(room_name): raise ValueError(...)`, which the
\* endpoint answers with 400 and str(exc)
room_not_found(room_name) ==
    HttpError(400, "El room '" \o room_name[1] \o "' no existe")

\* the role of the TokenRequest is neither emitter nor viewer: the handler is not
\* called, the client gets 422
TokenRequest_rejected ==
    /\ tk_pc = "call"
    /\ tk_role \notin Roles
    /\ response' = role_rejected
    /\ tk_pc' = "done"
    /\ UNCHANGED <<clock, client_instance, srv_egress, log>>
    /\ UNCHANGED <<tk_room, tk_identity, tk_role, tk_check, tk_open, srv_rooms>>
    /\ UNCHANGED notTk

\* the endpoint calls generate_token: the role is known, room_exists creates a
\* client and awaits list_rooms(names=[room_name])
generate_token_endpoint_call ==
    /\ tk_pc = "call"
    /\ tk_role \in Roles
    /\ tk_open' = tk_open + 1
    /\ tk_check' = "pending"
    /\ tk_pc' = "checking"
    /\ UNCHANGED sharedVars
    /\ UNCHANGED <<tk_room, tk_identity, tk_role, srv_rooms>>
    /\ UNCHANGED notTk

\* list_rooms answers and the client is closed: with the room active the token is
\* issued (201), otherwise generate_token raises ValueError (400)
room_exists_ok ==
    /\ tk_pc = "checking"
    /\ tk_open' = tk_open - 1
    /\ tk_check' = IF tk_room \in srv_rooms THEN "found" ELSE "missing"
    /\ response' = IF tk_room \in srv_rooms
                    THEN TokenResponse(tk_room, tk_identity, tk_role, clock)
                    ELSE room_not_found(tk_room)
    /\ tk_pc' = "done"
    /\ UNCHANGED <<clock, client_instance, srv_egress, log>>
    /\ UNCHANGED <<tk_room, tk_identity, tk_role, srv_rooms>>
    /\ UNCHANGED notTk

\* list_rooms raises: `except Exception: return False`, the client is closed, and
\* generate_token raises the ValueError of a missing room
room_exists_raises ==
    /\ tk_pc = "checking"
    /\ tk_open' = tk_open - 1
    /\ tk_check' = "failed"
    /\ response' = room_not_found(tk_room)
    /\ tk_pc' = "done"
    /\ UNCHANGED <<clock, client_instance, srv_egress, log>>
    /\ UNCHANGED <<tk_room, tk_identity, tk_role, srv_rooms>>
    /\ UNCHANGED notTk

(***************************************************************************)
(* POST /participants/token/batch: generate_tokens_multiple_endpoint over   *)
(* LiveKitParticipantService.generate_tokens_for_rooms, which calls         *)
(* generate_token for one room after the other.                             *)
(***************************************************************************)
\* results[room] = token_result: a key already present keeps its place
dict_set(results, room, token_result) ==
    IF \E i \in DOMAIN results : results[i].room = room
    THEN [i \in DOMAIN results |->
            IF results[i].room = room THEN [room |-> room] @@ token_result ELSE results[i]]
    ELSE Append(results, [room |-> room] @@ token_result)

\* no batch is ever empty
not_token_results_never(token_results) == FALSE

\* `if not token_results`
not_token_results(token_results) == token_results = <<>>

\* MultiTokenResponse(tokens=response_tokens), 201
MultiTokenResponse(token_results) ==
    [status |-> 201, room |-> <<>>, participants |-> <<>>, items |-> token_results,
     detail |-> None]

\* what the endpoint answers once generate_tokens_for_rooms has returned
generate_tokens_multiple_response(token_results) ==
    IF not_token_results(token_results)
    THEN HttpError(404,
             "No se pudieron generar tokens para ninguno de los rooms especificados")
    ELSE MultiTokenResponse(token_results)

\* the role of the MultiTokenRequest is neither emitter nor viewer: 422
MultiTokenRequest_rejected ==
    /\ mt_pc = "call"
    /\ tk_role \notin Roles
    /\ response' = role_rejected
    /\ mt_pc' = "done"
    /\ UNCHANGED <<clock, client_instance, srv_egress, log>>
    /\ UNCHANGED <<payload_role, mt_rooms, mt_ttl, mt_i, mt_checks, mt_results, tk_open>>
    /\ UNCHANGED notMt

\* the endpoint calls generate_tokens_for_rooms: results = {}, and generate_token of
\* the first room awaits room_exists, which creates a client
generate_tokens_multiple_endpoint_call ==
    /\ mt_pc = "call"
    /\ tk_role \in Roles
    /\ mt_i' = 1
    /\ mt_results' = <<>>
    /\ tk_open' = tk_open + 1
    /\ mt_pc' = "checking"
    /\ UNCHANGED sharedVars
    /\ UNCHANGED <<payload_role, mt_rooms, mt_ttl, mt_checks>>
    /\ UNCHANGED notMt

\* room_exists of mt_rooms[mt_i] has returned `exists` and closed its client: the
\* token of the room is stored, or the ValueError of generate_token is caught and the
\* loop continues; after the last room the endpoint answers
generate_tokens_for_rooms(exists, check) ==
    LET room == mt_rooms[mt_i]
        results == IF exists
                   THEN dict_set(mt_results, room,
                                 TokenResult(room, tk_identity, tk_role, mt_ttl, clock))
                   ELSE mt_results
    IN  /\ mt_checks' = Append(mt_checks, check)
        /\ mt_results' = results
        /\ IF mt_i < Len(mt_rooms)
           THEN /\ mt_i' = mt_i + 1
                /\ tk_open' = tk_open
                /\ mt_pc' = "checking"
                /\ response' = response
           ELSE /\ mt_i' = mt_i
                /\ tk_open' = tk_open - 1
                /\ mt_pc' = "done"
                /\ response' = generate_tokens_multiple_response(results)
        /\ UNCHANGED <<clock, client_instance, srv_egress, log>>
        /\ UNCHANGED <<payload_role, mt_rooms, mt_ttl>>
        /\ UNCHANGED notMt

\* list_rooms answers for the room the loop is at
tokens_room_exists_ok ==
    /\ mt_pc = "checking"
    /\ generate_tokens_for_rooms(mt_rooms[mt_i] \in srv_rooms,
                                 IF mt_rooms[mt_i] \in srv_rooms THEN "found" ELSE "missing")

\* list_rooms raises for the room the loop is at: room_exists returns False
tokens_room_exists_raises ==
    /\ mt_pc = "checking"
    /\ generate_tokens_for_rooms(FALSE, "failed")

(***************************************************************************)
(* GET /rooms: list_rooms_endpoint, LiveKitRoomService.list_rooms.         *)
(***************************************************************************)
\* the order in which the server lists its rooms
SrvRoomOrder == << <<"studio-1">>, <<"lobby">> >>

\* ApiError.status as the endpoint reads it, 0 when the error carries none
ApiErrorStatuses == {0, 503}

\* lk.room.list_rooms(ListRoomsRequest()), no name filter
list_rooms(rooms) == SelectSeq(SrvRoomOrder, LAMBDA n : n \in rooms)

\* APIResponse(status=200, message="Lista de salas activas", data=rooms_list)
APIResponse(rooms) ==
    [status |-> 200, room |-> <<>>, participants |-> <<>>,
     items |-> [k \in DOMAIN rooms |-> [room_name |-> rooms[k]]],
     detail |-> None]

\* the endpoint calls the service: _get_client creates a LiveKitAPI, list_rooms
\* is awaited
list_rooms_endpoint_call ==
    /\ rm_pc = "call"
    /\ rm_open' = rm_open + 1
    /\ rm_pc' = "listing"
    /\ UNCHANGED sharedVars
    /\ UNCHANGED notRm

\* the server answers, the client is closed, the endpoint answers 200
list_rooms_ok ==
    /\ rm_pc = "listing"
    /\ rm_open' = rm_open - 1
    /\ response' = APIResponse(list_rooms(srv_rooms))
    /\ rm_pc' = "done"
    /\ UNCHANGED <<clock, client_instance, srv_egress, log>>
    /\ UNCHANGED notRm

\* list_rooms raises ApiError: the service logs and re-raises without closing the
\* client, the endpoint raises HTTPException(exc.status or 500)
list_rooms_api_error ==
    /\ rm_pc = "listing"
    /\ \E st \in ApiErrorStatuses :
          response' = HttpError(IF st = 0 THEN 500 ELSE st, "ApiError")
    /\ rm_pc' = "done"
    /\ UNCHANGED <<clock, client_instance, srv_egress, log>>
    /\ UNCHANGED rm_open
    /\ UNCHANGED notRm

\* list_rooms raises another exception: `except lk_api.ApiError` does not match and
\* the exception leaves the handler
list_rooms_exception ==
    /\ rm_pc = "listing"
    /\ response' = InternalServerError
    /\ rm_pc' = "raised"
    /\ UNCHANGED <<clock, client_instance, srv_egress, log>>
    /\ UNCHANGED rm_open
    /\ UNCHANGED notRm

(***************************************************************************)
(* HTTP Basic authentication: auth/basic_auth.py, the `dependencies` of    *)
(* the routers that main.py includes.  Credentials are strings of          *)
(* characters; compare_digest sees their UTF-8 bytes.                      *)
(***************************************************************************)
\* settings.API_USER, settings.API_PASSWORD: any configured pair
API_USER == <<"o", "n", "i">>
API_PASSWORD == <<"p", "w">>

Usernames == {API_USER, <<"O", "n", "i">>, <<"o", "n">>}
Passwords == {API_PASSWORD, <<"p", "W">>, <<>>}

\* a request without an Authorization header of the Basic scheme
NoCredentials == [scheme |-> "none", username |-> <<>>, password |-> <<>>]
AuthorizationHeaders ==
    [scheme : {"Basic"}, username : Usernames, password : Passwords]
        \cup {NoCredentials}

Handlers ==
    {"record_room_endpoint", "record_participant_endpoint", "record_emitters_endpoint",
     "full_record_endpoint", "stop_recording_endpoint", "stop_recordings_by_ids",
     "list_recordings_by_room_endpoint", "generate_token_endpoint",
     "list_rooms_endpoint"}

\* the router that declares the handler
router_of(handler) ==
    IF handler = "list_rooms_endpoint" THEN "/rooms"
    ELSE IF handler = "generate_token_endpoint" THEN "/participants"
    ELSE "/egress"

\* APIRouter(prefix=..., dependencies=[Depends(verify_basic_auth)]) of the routers
\* that app.include_router registers
dependencies ==
    [prefix \in {"/rooms", "/participants", "/egress"} |-> {"verify_basic_auth"}]

\* str.encode('utf-8') of the characters that occur in the credentials
utf8 ==
    ("o" :> 111) @@ ("n" :> 110) @@ ("i" :> 105) @@ ("O" :> 79) @@ ("p" :> 112)
        @@ ("w" :> 119) @@ ("W" :> 87)
encode(str) == [k \in DOMAIN str |-> utf8[str[k]]]

\* secrets.compare_digest(a, b): whether the two byte strings are equal
compare_digest(a, b) == a = b

\* variant of verify_basic_auth that does not look at the password
verify_basic_auth_username_only(credentials) ==
    compare_digest(encode(credentials.username), encode(API_USER))

\* verify_basic_auth: TRUE when it returns {"username": username}, FALSE when it
\* raises HTTPException(401)
verify_basic_auth(credentials) ==
    LET username_correct ==
            compare_digest(encode(credentials.username), encode(API_USER))
        password_correct ==
            compare_digest(encode(credentials.password), encode(API_PASSWORD))
    IN  IF ~(username_correct /\ password_correct) THEN FALSE ELSE TRUE

\* Depends(security): HTTPBasic finds no Basic credentials in the request and
\* answers 401 before verify_basic_auth runs
security_raises ==
    /\ au_pc = "request"
    /\ "verify_basic_auth" \in dependencies[router_of(au_endpoint)]
    /\ au_credentials.scheme # "Basic"
    /\ response' = HttpError(401, "Not authenticated")
    /\ au_pc' = "rejected"
    /\ UNCHANGED <<clock, client_instance, srv_egress, log>>
    /\ UNCHANGED <<au_endpoint, au_credentials>>
    /\ UNCHANGED notAu

\* verify_basic_auth raises HTTPException(401, "Credenciales incorrectas"): the
\* handler is not called
verify_basic_auth_raises ==
    /\ au_pc = "request"
    /\ "verify_basic_auth" \in dependencies[router_of(au_endpoint)]
    /\ au_credentials.scheme = "Basic"
    /\ ~verify_basic_auth(au_credentials)
    /\ response' = HttpError(401, "Credenciales incorrectas")
    /\ au_pc' = "rejected"
    /\ UNCHANGED <<clock, client_instance, srv_egress, log>>
    /\ UNCHANGED <<au_endpoint, au_credentials>>
    /\ UNCHANGED notAu

\* every dependency of the router returned: the handler is called with the
\* payload of the request
verify_basic_auth_returns ==
    /\ au_pc = "request"
    /\ "verify_basic_auth" \in dependencies[router_of(au_endpoint)]
          => (au_credentials.scheme = "Basic" /\ verify_basic_auth(au_credentials))
    /\ au_pc' = "accepted"
    /\ em_pc' = IF au_endpoint = "record_emitters_endpoint" THEN "call" ELSE em_pc
    /\ fr_pc' = IF au_endpoint = "full_record_endpoint" THEN "call" ELSE fr_pc
    /\ sm_pc' = IF au_endpoint = "stop_recordings_by_ids" THEN "call" ELSE sm_pc
    /\ so_pc' = IF au_endpoint = "stop_recording_endpoint" THEN "call" ELSE so_pc
    /\ ls_pc' = IF au_endpoint = "list_recordings_by_room_endpoint" THEN "ready"
                ELSE ls_pc
    /\ st_pc' = IF au_endpoint \in {"record_room_endpoint", "record_participant_endpoint"}
                THEN "call" ELSE st_pc
    /\ tk_pc' = IF au_endpoint = "generate_token_endpoint" THEN "call" ELSE tk_pc
    /\ rm_pc' = IF au_endpoint = "list_rooms_endpoint" THEN "call" ELSE rm_pc
    /\ UNCHANGED sharedVars
    /\ UNCHANGED <<au_endpoint, au_credentials>>
    /\ UNCHANGED clVars
    /\ UNCHANGED crVars
    /\ UNCHANGED lfVars
    /\ UNCHANGED mtVars
    /\ UNCHANGED <<em_room, em_min, em_listed, em_i, em_tasks, em_infos, fr_room,
                  fr_room_task, fr_room_req, fr_room_info, fr_em_task, fr_listed,
                  fr_i, fr_tasks, fr_infos, fr_emitter_infos, sm_room,
                  sm_participants, sm_calls, sm_results, sm_completed, srv_status,
                  srv_stops, so_id, so_stop, so_listed, srv_records, unconvertible,
                  ls_room,
                  ls_active_only, ls_req, ls_answers, st_kind, st_room,
                  st_identity, st_filename, st_file, st_req, st_sent, tk_room,
                  tk_identity, tk_role, tk_check, tk_open, srv_rooms, rm_open>>

(***************************************************************************)
(* POST /rooms: create_room_endpoint over LiveKitRoomService.list_rooms    *)
(* and create_room.  Several requests for the same name are served at      *)
(* once; each runs from one await to the next as one step.                 *)
(***************************************************************************)
Requests == 1..MaxRequests

\* APIResponse(status=201, message="Sala creada con exito", data=room_to_response(room))
RoomCreated(name) ==
    [status |-> 201, room |-> <<>>, participants |-> <<>>,
     items |-> <<[room_name |-> name]>>, detail |-> None]

\* `for room in rooms: if room.name == payload.name`
already_exists(rooms, name) == \E k \in DOMAIN rooms : rooms[k] = name

\* the endpoint calls service.list_rooms(): _get_client, list_rooms is awaited
create_room_endpoint_call(r) ==
    /\ cr_pc[r] = "call"
    /\ cr_pc' = [cr_pc EXCEPT ![r] = "listing"]
    /\ rm_open' = rm_open + 1
    /\ UNCHANGED sharedVars
    /\ UNCHANGED <<cr_name, cr_responses, cr_existed, srv_rooms>>
    /\ UNCHANGED notCr

\* list_rooms answers and its client is closed: 409 when the name is listed,
\* otherwise service.create_room: _get_client, create_room is awaited
create_room_listed(r) ==
    /\ cr_pc[r] = "listing"
    /\ IF already_exists(list_rooms(srv_rooms), cr_name)
       THEN /\ cr_responses' = [cr_responses EXCEPT
                                  ![r] = HttpError(409, "La sala ya existe y esta activa")]
            /\ cr_pc' = [cr_pc EXCEPT ![r] = "done"]
            /\ rm_open' = rm_open - 1
       ELSE /\ cr_pc' = [cr_pc EXCEPT ![r] = "creating"]
            /\ rm_open' = rm_open
            /\ UNCHANGED cr_responses
    /\ UNCHANGED sharedVars
    /\ UNCHANGED <<cr_name, cr_existed, srv_rooms>>
    /\ UNCHANGED notCr

\* list_rooms raises: the call is outside every try statement of the endpoint, the
\* exception leaves the handler; the client of list_rooms is not closed
create_room_list_raises(r) ==
    /\ cr_pc[r] = "listing"
    /\ cr_responses' = [cr_responses EXCEPT ![r] = InternalServerError]
    /\ cr_pc' = [cr_pc EXCEPT ![r] = "raised"]
    /\ UNCHANGED sharedVars
    /\ UNCHANGED <<cr_name, cr_existed, srv_rooms, rm_open>>
    /\ UNCHANGED notCr

\* the server serves CreateRoom: it creates the room, or returns the active room
\* of that name; the client is closed and the endpoint answers 201
create_room_ok(r) ==
    /\ cr_pc[r] = "creating"
    /\ cr_existed' = Append(cr_existed, cr_name \in srv_rooms)
    /\ srv_rooms' = srv_rooms \cup {cr_name}
    /\ rm_open' = rm_open - 1
    /\ cr_responses' = [cr_responses EXCEPT ![r] = RoomCreated(cr_name)]
    /\ cr_pc' = [cr_pc EXCEPT ![r] = "done"]
    /\ UNCHANGED sharedVars
    /\ UNCHANGED cr_name
    /\ UNCHANGED notCr

\* create_room raises ApiError: HTTPException(exc.status or 500); the client of
\* create_room is not closed
create_room_api_error(r) ==
    /\ cr_pc[r] = "creating"
    /\ \E st \in ApiErrorStatuses :
          cr_responses' = [cr_responses EXCEPT
                             ![r] = HttpError(IF st = 0 THEN 500 ELSE st, "ApiError")]
    /\ cr_pc' = [cr_pc EXCEPT ![r] = "done"]
    /\ UNCHANGED sharedVars
    /\ UNCHANGED <<cr_name, cr_existed, srv_rooms, rm_open>>
    /\ UNCHANGED notCr

\* create_room raises another exception: it leaves the handler
create_room_exception(r) ==
    /\ cr_pc[r] = "creating"
    /\ cr_responses' = [cr_responses EXCEPT ![r] = InternalServerError]
    /\ cr_pc' = [cr_pc EXCEPT ![r] = "raised"]
    /\ UNCHANGED sharedVars
    /\ UNCHANGED <<cr_name, cr_existed, srv_rooms, rm_open>>
    /\ UNCHANGED notCr

(***************************************************************************)
(* LiveKitEgressService.client() and close() on one service object, called *)
(* by any number of coroutines.  client() holds no await and runs as one   *)
(* step; close() suspends in `await close_fn()` when the client's close is *)
(* a coroutine function, and its `finally` runs when it resumes.           *)
(***************************************************************************)
\* a coroutine calls client()
client_call ==
    /\ cl_calls < MaxCalls
    /\ cl_calls' = cl_calls + 1
    /\ cl_created' = IF creates(client_instance) THEN cl_created + 1 ELSE cl_created
    /\ client_instance' = client(client_instance)
    /\ cl_outcome' = "client"
    /\ UNCHANGED <<clock, srv_egress, log, response>>
    /\ UNCHANGED <<cl_released, cl_closing>>
    /\ UNCHANGED notCl

\* close() while no instance is held: `if self._client_instance` is false
close_nothing ==
    /\ cl_calls < MaxCalls
    /\ client_instance = None
    /\ cl_calls' = cl_calls + 1
    /\ cl_outcome' = "closed"
    /\ UNCHANGED sharedVars
    /\ UNCHANGED <<cl_created, cl_released, cl_closing>>
    /\ UNCHANGED notCl

\* close() of a client whose close is no coroutine function (a plain callable, or
\* absent): it returns or raises at once, `finally` drops the instance
close_at_once ==
    /\ cl_calls < MaxCalls
    /\ client_instance # None
    /\ cl_calls' = cl_calls + 1
    /\ client_instance' = None
    /\ cl_released' = cl_released + 1
    /\ cl_outcome' \in {"closed", "raised"}
    /\ UNCHANGED <<clock, srv_egress, log, response>>
    /\ UNCHANGED <<cl_created, cl_closing>>
    /\ UNCHANGED notCl

\* close() of a client whose close is a coroutine function: `await close_fn()`
close_await ==
    /\ cl_calls < MaxCalls
    /\ client_instance # None
    /\ cl_calls' = cl_calls + 1
    /\ cl_closing' = cl_closing + 1
    /\ UNCHANGED sharedVars
    /\ UNCHANGED <<cl_created, cl_released, cl_outcome>>
    /\ UNCHANGED notCl

\* a suspended close() resumes, close_fn having returned or raised: `except` only
\* logs at debug level, `finally: self._client_instance = None`
close_finally ==
    /\ cl_closing > 0
    /\ cl_closing' = cl_closing - 1
    /\ client_instance' = None
    /\ cl_released' = IF client_instance # None THEN cl_released + 1 ELSE cl_released
    /\ cl_outcome' \in {"closed", "raised"}
    /\ UNCHANGED <<clock, srv_egress, log, response>>
    /\ UNCHANGED <<cl_calls, cl_created>>
    /\ UNCHANGED notCl

(***************************************************************************)
(* main.py: lifespan.  The routers build their own service objects:        *)
(* get_egress_service of egress_router.py returns a new                    *)
(* LiveKitEgressService for each request, the room and the participant     *)
(* services create one LiveKitAPI per call.                                *)
(***************************************************************************)
\* no request is being served
NoRequestInFlight ==
    /\ st_pc \in {"idle", "done"}
    /\ tk_pc \in {"idle", "done"}
    /\ \A r \in Requests : cr_pc[r] \in {"idle", "done", "raised"}

\* the part of lifespan after `yield`: await egress_service.close(), on the
\* singleton of main.py
lifespan_shutdown ==
    /\ app_state = "running"
    /\ NoRequestInFlight
    /\ egress_service' = None
    /\ app_state' = "stopped"
    /\ UNCHANGED sharedVars
    /\ UNCHANGED <<emVars, frVars, smVars, soVars, lsVars, stVars, tkVars, rmVars, auVars,
                   clVars, crVars, mtVars>>

(***************************************************************************)
(* Specifications: one request is served per behaviour.                    *)
(***************************************************************************)
\* POST /egress/emitters with a valid EmittersRecordRequest
InitEmitters ==
    \* a fresh service and an untouched server
    /\ clock = 0
    /\ client_instance = None
    /\ srv_egress = <<>>
    /\ log = <<>>
    /\ response = NoResponse
    \* the request
    /\ em_pc = "call"
    /\ em_room \in RoomNames
    /\ em_min \in 1..MaxMinTracks
    /\ em_listed = <<>>
    /\ em_i = 0
    /\ em_tasks = <<>>
    /\ em_infos = <<>>
    \* no full-room start
    /\ fr_pc = "idle"
    /\ fr_room = <<>>
    /\ fr_room_task = "none"
    /\ fr_room_req = <<>>
    /\ fr_room_info = Pending
    /\ fr_em_task = "none"
    /\ fr_listed = <<>>
    /\ fr_i = 0
    /\ fr_tasks = <<>>
    /\ fr_infos = <<>>
    /\ fr_emitter_infos = <<>>
    \* no stop-many
    /\ sm_pc = "idle"
    /\ sm_room = <<>>
    /\ sm_participants = <<>>
    /\ sm_calls = <<>>
    /\ sm_results = <<>>
    /\ sm_completed = <<>>
    /\ srv_status = [e \in EgressIds |-> "unknown"]
    /\ srv_stops = <<>>
    \* no stop-one
    /\ so_pc = "idle"
    /\ so_id = None
    /\ so_stop = NotCalled
    /\ so_listed = <<>>
    /\ srv_records = [e \in EgressIds |-> NoRecord]
    /\ unconvertible = {}
    \* no listing
    /\ ls_pc = "idle"
    /\ ls_room = <<>>
    /\ ls_active_only = FALSE
    /\ ls_req = NoRequest
    /\ ls_answers = [a \in BOOLEAN |-> NoResponse]
    \* no single start
    /\ st_pc = "idle"
    /\ st_kind = "room"
    /\ st_room = <<>>
    /\ st_identity = <<>>
    /\ st_filename = <<>>
    /\ st_file = <<>>
    /\ st_req = <<>>
    /\ st_sent = 0
    \* no token request
    /\ tk_pc = "idle"
    /\ tk_room = <<>>
    /\ tk_identity = <<>>
    /\ tk_role = "viewer"
    /\ tk_check = "none"
    /\ tk_open = 0
    /\ srv_rooms = {}
    \* no room listing
    /\ rm_pc = "idle"
    /\ rm_open = 0
    \* the request passed its dependencies
    /\ au_pc = "idle"
    /\ au_endpoint = None
    /\ au_credentials = NoCredentials
    \* no call of client() or close() is counted
    /\ cl_calls = 0
    /\ cl_created = 0
    /\ cl_released = 0
    /\ cl_closing = 0
    /\ cl_outcome = "none"
    \* no create-room request
    /\ cr_name = <<>>
    /\ cr_pc = [r \in Requests |-> "idle"]
    /\ cr_responses = [r \in Requests |-> NoResponse]
    /\ cr_existed = <<>>
    \* no batch of tokens
    /\ payload_role = "viewer"
    /\ mt_pc = "idle"
    /\ mt_rooms = <<>>
    /\ mt_ttl = <<>>
    /\ mt_i = 0
    /\ mt_checks = <<>>
    /\ mt_results = <<>>
    \* the application is running, its egress singleton has made no client
    /\ app_state = "running"
    /\ egress_service = None

\* POST /egress/full with a valid FullRecordRequest
InitFull ==
    \* a fresh service and an untouched server
    /\ clock = 0
    /\ client_instance = None
    /\ srv_egress = <<>>
    /\ log = <<>>
    /\ response = NoResponse
    \* the request
    /\ fr_pc = "call"
    /\ fr_room \in RoomNames
    /\ fr_room_task = "none"
    /\ fr_room_req = <<>>
    /\ fr_room_info = Pending
    /\ fr_em_task = "none"
    /\ fr_listed = <<>>
    /\ fr_i = 0
    /\ fr_tasks = <<>>
    /\ fr_infos = <<>>
    /\ fr_emitter_infos = <<>>
    \* no emitter fan-out
    /\ em_pc = "idle"
    /\ em_room = <<>>
    /\ em_min = 1
    /\ em_listed = <<>>
    /\ em_i = 0
    /\ em_tasks = <<>>
    /\ em_infos = <<>>
    \* no stop-many
    /\ sm_pc = "idle"
    /\ sm_room = <<>>
    /\ sm_participants = <<>>
    /\ sm_calls = <<>>
    /\ sm_results = <<>>
    /\ sm_completed = <<>>
    /\ srv_status = [e \in EgressIds |-> "unknown"]
    /\ srv_stops = <<>>
    \* no stop-one
    /\ so_pc = "idle"
    /\ so_id = None
    /\ so_stop = NotCalled
    /\ so_listed = <<>>
    /\ srv_records = [e \in EgressIds |-> NoRecord]
    /\ unconvertible = {}
    \* no listing
    /\ ls_pc = "idle"
    /\ ls_room = <<>>
    /\ ls_active_only = FALSE
    /\ ls_req = NoRequest
    /\ ls_answers = [a \in BOOLEAN |-> NoResponse]
    \* no single start
    /\ st_pc = "idle"
    /\ st_kind = "room"
    /\ st_room = <<>>
    /\ st_identity = <<>>
    /\ st_filename = <<>>
    /\ st_file = <<>>
    /\ st_req = <<>>
    /\ st_sent = 0
    \* no token request
    /\ tk_pc = "idle"
    /\ tk_room = <<>>
    /\ tk_identity = <<>>
    /\ tk_role = "viewer"
    /\ tk_check = "none"
    /\ tk_open = 0
    /\ srv_rooms = {}
    \* no room listing
    /\ rm_pc = "idle"
    /\ rm_open = 0
    \* the request passed its dependencies
    /\ au_pc = "idle"
    /\ au_endpoint = None
    /\ au_credentials = NoCredentials
    \* no call of client() or close() is counted
    /\ cl_calls = 0
    /\ cl_created = 0
    /\ cl_released = 0
    /\ cl_closing = 0
    /\ cl_outcome = "none"
    \* no create-room request
    /\ cr_name = <<>>
    /\ cr_pc = [r \in Requests |-> "idle"]
    /\ cr_responses = [r \in Requests |-> NoResponse]
    /\ cr_existed = <<>>
    \* no batch of tokens
    /\ payload_role = "viewer"
    /\ mt_pc = "idle"
    /\ mt_rooms = <<>>
    /\ mt_ttl = <<>>
    /\ mt_i = 0
    /\ mt_checks = <<>>
    /\ mt_results = <<>>
    \* the application is running, its egress singleton has made no client
    /\ app_state = "running"
    /\ egress_service = None

\* POST /egress/stop/by-ids with a StopRecordingsRequest
InitStopMany ==
    \* a fresh service and an untouched server
    /\ clock = 0
    /\ client_instance = None
    /\ srv_egress = <<>>
    /\ log = <<>>
    /\ response = NoResponse
    \* the request and the state of the server
    /\ sm_pc = "call"
    /\ \E pl \in StopPayloads : sm_room = pl[1] /\ sm_participants = pl[2]
    /\ sm_calls = <<>>
    /\ sm_results = <<>>
    /\ sm_completed = <<>>
    /\ srv_status \in [EgressIds -> {"unknown", "EGRESS_ACTIVE", "EGRESS_COMPLETE"}]
    /\ srv_stops = <<>>
    \* no emitter fan-out
    /\ em_pc = "idle"
    /\ em_room = <<>>
    /\ em_min = 1
    /\ em_listed = <<>>
    /\ em_i = 0
    /\ em_tasks = <<>>
    /\ em_infos = <<>>
    \* no full-room start
    /\ fr_pc = "idle"
    /\ fr_room = <<>>
    /\ fr_room_task = "none"
    /\ fr_room_req = <<>>
    /\ fr_room_info = Pending
    /\ fr_em_task = "none"
    /\ fr_listed = <<>>
    /\ fr_i = 0
    /\ fr_tasks = <<>>
    /\ fr_infos = <<>>
    /\ fr_emitter_infos = <<>>
    \* no stop-one
    /\ so_pc = "idle"
    /\ so_id = None
    /\ so_stop = NotCalled
    /\ so_listed = <<>>
    /\ srv_records = [e \in EgressIds |-> NoRecord]
    /\ unconvertible = {}
    \* no listing
    /\ ls_pc = "idle"
    /\ ls_room = <<>>
    /\ ls_active_only = FALSE
    /\ ls_req = NoRequest
    /\ ls_answers = [a \in BOOLEAN |-> NoResponse]
    \* no single start
    /\ st_pc = "idle"
    /\ st_kind = "room"
    /\ st_room = <<>>
    /\ st_identity = <<>>
    /\ st_filename = <<>>
    /\ st_file = <<>>
    /\ st_req = <<>>
    /\ st_sent = 0
    \* no token request
    /\ tk_pc = "idle"
    /\ tk_room = <<>>
    /\ tk_identity = <<>>
    /\ tk_role = "viewer"
    /\ tk_check = "none"
    /\ tk_open = 0
    /\ srv_rooms = {}
    \* no room listing
    /\ rm_pc = "idle"
    /\ rm_open = 0
    \* the request passed its dependencies
    /\ au_pc = "idle"
    /\ au_endpoint = None
    /\ au_credentials = NoCredentials
    \* no call of client() or close() is counted
    /\ cl_calls = 0
    /\ cl_created = 0
    /\ cl_released = 0
    /\ cl_closing = 0
    /\ cl_outcome = "none"
    \* no create-room request
    /\ cr_name = <<>>
    /\ cr_pc = [r \in Requests |-> "idle"]
    /\ cr_responses = [r \in Requests |-> NoResponse]
    /\ cr_existed = <<>>
    \* no batch of tokens
    /\ payload_role = "viewer"
    /\ mt_pc = "idle"
    /\ mt_rooms = <<>>
    /\ mt_ttl = <<>>
    /\ mt_i = 0
    /\ mt_checks = <<>>
    /\ mt_results = <<>>
    \* the application is running, its egress singleton has made no client
    /\ app_state = "running"
    /\ egress_service = None

\* POST /egress/stop with an egress_id, against any state of the server
InitStopOne ==
    \* a fresh service and an untouched server
    /\ clock = 0
    /\ client_instance = None
    /\ srv_egress = <<>>
    /\ log = <<>>
    /\ response = NoResponse
    \* the request and the state of the server
    /\ so_pc = "call"
    /\ so_id \in EgressIds
    /\ so_stop = NotCalled
    /\ so_listed = <<>>
    /\ srv_records \in [EgressIds -> SrvRecords]
    /\ unconvertible \in SUBSET OddTimestamps
    \* no emitter fan-out
    /\ em_pc = "idle"
    /\ em_room = <<>>
    /\ em_min = 1
    /\ em_listed = <<>>
    /\ em_i = 0
    /\ em_tasks = <<>>
    /\ em_infos = <<>>
    \* no full-room start
    /\ fr_pc = "idle"
    /\ fr_room = <<>>
    /\ fr_room_task = "none"
    /\ fr_room_req = <<>>
    /\ fr_room_info = Pending
    /\ fr_em_task = "none"
    /\ fr_listed = <<>>
    /\ fr_i = 0
    /\ fr_tasks = <<>>
    /\ fr_infos = <<>>
    /\ fr_emitter_infos = <<>>
    \* no stop-many, the state of the server
    /\ sm_pc = "idle"
    /\ sm_room = <<>>
    /\ sm_participants = <<>>
    /\ sm_calls = <<>>
    /\ sm_results = <<>>
    /\ sm_completed = <<>>
    /\ srv_status \in [EgressIds -> {"unknown", "EGRESS_ACTIVE", "EGRESS_COMPLETE"}]
    /\ srv_stops = <<>>
    \* no listing
    /\ ls_pc = "idle"
    /\ ls_room = <<>>
    /\ ls_active_only = FALSE
    /\ ls_req = NoRequest
    /\ ls_answers = [a \in BOOLEAN |-> NoResponse]
    \* no single start
    /\ st_pc = "idle"
    /\ st_kind = "room"
    /\ st_room = <<>>
    /\ st_identity = <<>>
    /\ st_filename = <<>>
    /\ st_file = <<>>
    /\ st_req = <<>>
    /\ st_sent = 0
    \* no token request
    /\ tk_pc = "idle"
    /\ tk_room = <<>>
    /\ tk_identity = <<>>
    /\ tk_role = "viewer"
    /\ tk_check = "none"
    /\ tk_open = 0
    /\ srv_rooms = {}
    \* no room listing
    /\ rm_pc = "idle"
    /\ rm_open = 0
    \* the request passed its dependencies
    /\ au_pc = "idle"
    /\ au_endpoint = None
    /\ au_credentials = NoCredentials
    \* no call of client() or close() is counted
    /\ cl_calls = 0
    /\ cl_created = 0
    /\ cl_released = 0
    /\ cl_closing = 0
    /\ cl_outcome = "none"
    \* no create-room request
    /\ cr_name = <<>>
    /\ cr_pc = [r \in Requests |-> "idle"]
    /\ cr_responses = [r \in Requests |-> NoResponse]
    /\ cr_existed = <<>>
    \* no batch of tokens
    /\ payload_role = "viewer"
    /\ mt_pc = "idle"
    /\ mt_rooms = <<>>
    /\ mt_ttl = <<>>
    /\ mt_i = 0
    /\ mt_checks = <<>>
    /\ mt_results = <<>>
    \* the application is running, its egress singleton has made no client
    /\ app_state = "running"
    /\ egress_service = None

\* GET /egress/list/by-room/{room_name}, against any state of the server
InitListByRoom ==
    \* a fresh service and an untouched server
    /\ clock = 0
    /\ client_instance = None
    /\ srv_egress = <<>>
    /\ log = <<>>
    /\ response = NoResponse
    \* the room to list and the state of the server
    /\ ls_pc = "ready"
    /\ ls_room \in SrvRoomNames
    /\ ls_active_only = FALSE
    /\ ls_req = NoRequest
    /\ ls_answers = [a \in BOOLEAN |-> NoResponse]
    \* no emitter fan-out
    /\ em_pc = "idle"
    /\ em_room = <<>>
    /\ em_min = 1
    /\ em_listed = <<>>
    /\ em_i = 0
    /\ em_tasks = <<>>
    /\ em_infos = <<>>
    \* no full-room start
    /\ fr_pc = "idle"
    /\ fr_room = <<>>
    /\ fr_room_task = "none"
    /\ fr_room_req = <<>>
    /\ fr_room_info = Pending
    /\ fr_em_task = "none"
    /\ fr_listed = <<>>
    /\ fr_i = 0
    /\ fr_tasks = <<>>
    /\ fr_infos = <<>>
    /\ fr_emitter_infos = <<>>
    \* no stop-many, the state of the server
    /\ sm_pc = "idle"
    /\ sm_room = <<>>
    /\ sm_participants = <<>>
    /\ sm_calls = <<>>
    /\ sm_results = <<>>
    /\ sm_completed = <<>>
    /\ srv_status \in [EgressIds -> {"unknown", "EGRESS_STARTING", "EGRESS_ACTIVE", "EGRESS_COMPLETE"}]
    /\ srv_stops = <<>>
    \* no stop-one, the state of the server
    /\ so_pc = "idle"
    /\ so_id = None
    /\ so_stop = NotCalled
    /\ so_listed = <<>>
    /\ srv_records \in [EgressIds -> SrvRecords]
    /\ unconvertible \in SUBSET OddTimestamps
    \* no single start
    /\ st_pc = "idle"
    /\ st_kind = "room"
    /\ st_room = <<>>
    /\ st_identity = <<>>
    /\ st_filename = <<>>
    /\ st_file = <<>>
    /\ st_req = <<>>
    /\ st_sent = 0
    \* no token request
    /\ tk_pc = "idle"
    /\ tk_room = <<>>
    /\ tk_identity = <<>>
    /\ tk_role = "viewer"
    /\ tk_check = "none"
    /\ tk_open = 0
    /\ srv_rooms = {}
    \* no room listing
    /\ rm_pc = "idle"
    /\ rm_open = 0
    \* the request passed its dependencies
    /\ au_pc = "idle"
    /\ au_endpoint = None
    /\ au_credentials = NoCredentials
    \* no call of client() or close() is counted
    /\ cl_calls = 0
    /\ cl_created = 0
    /\ cl_released = 0
    /\ cl_closing = 0
    /\ cl_outcome = "none"
    \* no create-room request
    /\ cr_name = <<>>
    /\ cr_pc = [r \in Requests |-> "idle"]
    /\ cr_responses = [r \in Requests |-> NoResponse]
    /\ cr_existed = <<>>
    \* no batch of tokens
    /\ payload_role = "viewer"
    /\ mt_pc = "idle"
    /\ mt_rooms = <<>>
    /\ mt_ttl = <<>>
    /\ mt_i = 0
    /\ mt_checks = <<>>
    /\ mt_results = <<>>
    \* the application is running, its egress singleton has made no client
    /\ app_state = "running"
    /\ egress_service = None

\* POST /egress/room with a RoomRecordRequest, or POST /egress/participant with a
\* ParticipantRecordRequest
InitStart ==
    \* a fresh service and an untouched server
    /\ clock = 0
    /\ client_instance = None
    /\ srv_egress = <<>>
    /\ log = <<>>
    /\ response = NoResponse
    \* the request
    /\ st_pc = "call"
    /\ st_kind \in {"room", "participant"}
    /\ st_room \in NameTokens
    /\ st_identity \in IF st_kind = "participant" THEN NameTokens ELSE {<<>>}
    /\ st_filename \in IF st_kind = "room" THEN NameTokens \cup {<<>>} ELSE {<<>>}
    /\ st_file = <<>>
    /\ st_req = <<>>
    /\ st_sent = 0
    \* no emitter fan-out
    /\ em_pc = "idle"
    /\ em_room = <<>>
    /\ em_min = 1
    /\ em_listed = <<>>
    /\ em_i = 0
    /\ em_tasks = <<>>
    /\ em_infos = <<>>
    \* no full-room start
    /\ fr_pc = "idle"
    /\ fr_room = <<>>
    /\ fr_room_task = "none"
    /\ fr_room_req = <<>>
    /\ fr_room_info = Pending
    /\ fr_em_task = "none"
    /\ fr_listed = <<>>
    /\ fr_i = 0
    /\ fr_tasks = <<>>
    /\ fr_infos = <<>>
    /\ fr_emitter_infos = <<>>
    \* no stop-many
    /\ sm_pc = "idle"
    /\ sm_room = <<>>
    /\ sm_participants = <<>>
    /\ sm_calls = <<>>
    /\ sm_results = <<>>
    /\ sm_completed = <<>>
    /\ srv_status = [e \in EgressIds |-> "unknown"]
    /\ srv_stops = <<>>
    \* no stop-one
    /\ so_pc = "idle"
    /\ so_id = None
    /\ so_stop = NotCalled
    /\ so_listed = <<>>
    /\ srv_records = [e \in EgressIds |-> NoRecord]
    /\ unconvertible = {}
    \* no listing
    /\ ls_pc = "idle"
    /\ ls_room = <<>>
    /\ ls_active_only = FALSE
    /\ ls_req = NoRequest
    /\ ls_answers = [a \in BOOLEAN |-> NoResponse]
    \* no token request
    /\ tk_pc = "idle"
    /\ tk_room = <<>>
    /\ tk_identity = <<>>
    /\ tk_role = "viewer"
    /\ tk_check = "none"
    /\ tk_open = 0
    /\ srv_rooms = {}
    \* no room listing
    /\ rm_pc = "idle"
    /\ rm_open = 0
    \* the request passed its dependencies
    /\ au_pc = "idle"
    /\ au_endpoint = None
    /\ au_credentials = NoCredentials
    \* no call of client() or close() is counted
    /\ cl_calls = 0
    /\ cl_created = 0
    /\ cl_released = 0
    /\ cl_closing = 0
    /\ cl_outcome = "none"
    \* no create-room request
    /\ cr_name = <<>>
    /\ cr_pc = [r \in Requests |-> "idle"]
    /\ cr_responses = [r \in Requests |-> NoResponse]
    /\ cr_existed = <<>>
    \* no batch of tokens
    /\ payload_role = "viewer"
    /\ mt_pc = "idle"
    /\ mt_rooms = <<>>
    /\ mt_ttl = <<>>
    /\ mt_i = 0
    /\ mt_checks = <<>>
    /\ mt_results = <<>>
    \* the application is running, its egress singleton has made no client
    /\ app_state = "running"
    /\ egress_service = None

\* POST /participants/token with a valid TokenRequest, against any set of active rooms
InitToken ==
    \* a fresh service and an untouched server
    /\ clock = 0
    /\ client_instance = None
    /\ srv_egress = <<>>
    /\ log = <<>>
    /\ response = NoResponse
    \* the request and the state of the server
    /\ tk_pc = "call"
    /\ tk_room \in SrvRoomNames
    /\ tk_identity \in Range(Identities) \cup Range(SlashedIdentities)
    /\ \E v \in RoleInputs : payload_role = v /\ tk_role = lower(v)
    /\ tk_check = "none"
    /\ tk_open = 0
    /\ srv_rooms \in SUBSET SrvRoomNames
    \* no emitter fan-out
    /\ em_pc = "idle"
    /\ em_room = <<>>
    /\ em_min = 1
    /\ em_listed = <<>>
    /\ em_i = 0
    /\ em_tasks = <<>>
    /\ em_infos = <<>>
    \* no full-room start
    /\ fr_pc = "idle"
    /\ fr_room = <<>>
    /\ fr_room_task = "none"
    /\ fr_room_req = <<>>
    /\ fr_room_info = Pending
    /\ fr_em_task = "none"
    /\ fr_listed = <<>>
    /\ fr_i = 0
    /\ fr_tasks = <<>>
    /\ fr_infos = <<>>
    /\ fr_emitter_infos = <<>>
    \* no stop-many
    /\ sm_pc = "idle"
    /\ sm_room = <<>>
    /\ sm_participants = <<>>
    /\ sm_calls = <<>>
    /\ sm_results = <<>>
    /\ sm_completed = <<>>
    /\ srv_status = [e \in EgressIds |-> "unknown"]
    /\ srv_stops = <<>>
    \* no stop-one
    /\ so_pc = "idle"
    /\ so_id = None
    /\ so_stop = NotCalled
    /\ so_listed = <<>>
    /\ srv_records = [e \in EgressIds |-> NoRecord]
    /\ unconvertible = {}
    \* no listing
    /\ ls_pc = "idle"
    /\ ls_room = <<>>
    /\ ls_active_only = FALSE
    /\ ls_req = NoRequest
    /\ ls_answers = [a \in BOOLEAN |-> NoResponse]
    \* no single start
    /\ st_pc = "idle"
    /\ st_kind = "room"
    /\ st_room = <<>>
    /\ st_identity = <<>>
    /\ st_filename = <<>>
    /\ st_file = <<>>
    /\ st_req = <<>>
    /\ st_sent = 0
    \* no room listing
    /\ rm_pc = "idle"
    /\ rm_open = 0
    \* the request passed its dependencies
    /\ au_pc = "idle"
    /\ au_endpoint = None
    /\ au_credentials = NoCredentials
    \* no call of client() or close() is counted
    /\ cl_calls = 0
    /\ cl_created = 0
    /\ cl_released = 0
    /\ cl_closing = 0
    /\ cl_outcome = "none"
    \* no create-room request
    /\ cr_name = <<>>
    /\ cr_pc = [r \in Requests |-> "idle"]
    /\ cr_responses = [r \in Requests |-> NoResponse]
    /\ cr_existed = <<>>
    \* no batch of tokens, the state of the server
    /\ mt_pc = "idle"
    /\ mt_rooms = <<>>
    /\ mt_ttl = <<>>
    /\ mt_i = 0
    /\ mt_checks = <<>>
    /\ mt_results = <<>>
    \* the application is running, its egress singleton has made no client
    /\ app_state = "running"
    /\ egress_service = None

\* POST /participants/token/batch with a MultiTokenRequest, against any set of active rooms
InitBatch ==
    \* a fresh service and an untouched server
    /\ clock = 0
    /\ client_instance = None
    /\ srv_egress = <<>>
    /\ log = <<>>
    /\ response = NoResponse
    \* the request
    /\ mt_pc = "call"
    /\ mt_rooms \in RoomLists
    /\ mt_ttl \in TtlInputs
    /\ mt_i = 0
    /\ mt_checks = <<>>
    /\ mt_results = <<>>
    \* no emitter fan-out
    /\ em_pc = "idle"
    /\ em_room = <<>>
    /\ em_min = 1
    /\ em_listed = <<>>
    /\ em_i = 0
    /\ em_tasks = <<>>
    /\ em_infos = <<>>
    \* no full-room start
    /\ fr_pc = "idle"
    /\ fr_room = <<>>
    /\ fr_room_task = "none"
    /\ fr_room_req = <<>>
    /\ fr_room_info = Pending
    /\ fr_em_task = "none"
    /\ fr_listed = <<>>
    /\ fr_i = 0
    /\ fr_tasks = <<>>
    /\ fr_infos = <<>>
    /\ fr_emitter_infos = <<>>
    \* no stop-many
    /\ sm_pc = "idle"
    /\ sm_room = <<>>
    /\ sm_participants = <<>>
    /\ sm_calls = <<>>
    /\ sm_results = <<>>
    /\ sm_completed = <<>>
    /\ srv_status = [e \in EgressIds |-> "unknown"]
    /\ srv_stops = <<>>
    \* no stop-one
    /\ so_pc = "idle"
    /\ so_id = None
    /\ so_stop = NotCalled
    /\ so_listed = <<>>
    /\ srv_records = [e \in EgressIds |-> NoRecord]
    /\ unconvertible = {}
    \* no listing
    /\ ls_pc = "idle"
    /\ ls_room = <<>>
    /\ ls_active_only = FALSE
    /\ ls_req = NoRequest
    /\ ls_answers = [a \in BOOLEAN |-> NoResponse]
    \* no single start
    /\ st_pc = "idle"
    /\ st_kind = "room"
    /\ st_room = <<>>
    /\ st_identity = <<>>
    /\ st_filename = <<>>
    /\ st_file = <<>>
    /\ st_req = <<>>
    /\ st_sent = 0
    \* no token request, the state of the server
    /\ tk_pc = "idle"
    /\ tk_room = <<>>
    /\ tk_identity \in Range(Identities) \cup Range(SlashedIdentities)
    /\ \E v \in RoleInputs : payload_role = v /\ tk_role = lower(v)
    /\ tk_check = "none"
    /\ tk_open = 0
    /\ srv_rooms \in SUBSET SrvRoomNames
    \* no room listing
    /\ rm_pc = "idle"
    /\ rm_open = 0
    \* the request passed its dependencies
    /\ au_pc = "idle"
    /\ au_endpoint = None
    /\ au_credentials = NoCredentials
    \* no call of client() or close() is counted
    /\ cl_calls = 0
    /\ cl_created = 0
    /\ cl_released = 0
    /\ cl_closing = 0
    /\ cl_outcome = "none"
    \* no create-room request
    /\ cr_name = <<>>
    /\ cr_pc = [r \in Requests |-> "idle"]
    /\ cr_responses = [r \in Requests |-> NoResponse]
    /\ cr_existed = <<>>
    \* the application is running, its egress singleton has made no client
    /\ app_state = "running"
    /\ egress_service = None

\* a request to one of the handlers, with its payload and any Authorization header,
\* before the dependencies of the router have run
InitAuth ==
    \* a fresh service and an untouched server
    /\ clock = 0
    /\ client_instance = None
    /\ srv_egress = <<>>
    /\ log = <<>>
    /\ response = NoResponse
    \* the request
    /\ au_pc = "request"
    /\ au_endpoint \in Handlers
    /\ au_credentials \in AuthorizationHeaders
    \* the handler is not called yet; its payload and the state of the server
    /\ em_pc = "idle"
    /\ em_room \in IF au_endpoint = "record_emitters_endpoint" THEN RoomNames ELSE {<<>>}
    /\ em_min \in IF au_endpoint = "record_emitters_endpoint" THEN 1..MaxMinTracks ELSE {1}
    /\ em_listed = <<>>
    /\ em_i = 0
    /\ em_tasks = <<>>
    /\ em_infos = <<>>
    \* the handler is not called yet; its payload and the state of the server
    /\ fr_pc = "idle"
    /\ fr_room \in IF au_endpoint = "full_record_endpoint" THEN RoomNames ELSE {<<>>}
    /\ fr_room_task = "none"
    /\ fr_room_req = <<>>
    /\ fr_room_info = Pending
    /\ fr_em_task = "none"
    /\ fr_listed = <<>>
    /\ fr_i = 0
    /\ fr_tasks = <<>>
    /\ fr_infos = <<>>
    /\ fr_emitter_infos = <<>>
    \* the handler is not called yet; its payload and the state of the server
    /\ sm_pc = "idle"
    /\ \E pl \in (IF au_endpoint = "stop_recordings_by_ids" THEN StopPayloads
                   ELSE {<< <<>>, <<>> >>}) :
          sm_room = pl[1] /\ sm_participants = pl[2]
    /\ sm_calls = <<>>
    /\ sm_results = <<>>
    /\ sm_completed = <<>>
    /\ srv_status \in IF au_endpoint \in {"stop_recordings_by_ids", "stop_recording_endpoint"}
                     THEN [EgressIds -> {"unknown", "EGRESS_ACTIVE", "EGRESS_COMPLETE"}]
                     ELSE {[e \in EgressIds |-> "unknown"]}
    /\ srv_stops = <<>>
    \* the handler is not called yet; its payload and the state of the server
    /\ so_pc = "idle"
    /\ so_id \in IF au_endpoint = "stop_recording_endpoint" THEN EgressIds ELSE {None}
    /\ so_stop = NotCalled
    /\ so_listed = <<>>
    /\ srv_records \in IF au_endpoint = "stop_recording_endpoint"
                      THEN [EgressIds -> {r \in SrvRecords : r.started_at = 5 /\ r.ended_at = 0}]
                      ELSE {[e \in EgressIds |-> NoRecord]}
    /\ unconvertible = {}
    \* the handler is not called yet; its payload and the state of the server
    /\ ls_pc = "idle"
    /\ ls_room \in IF au_endpoint = "list_recordings_by_room_endpoint" THEN SrvRoomNames
                  ELSE {<<>>}
    /\ ls_active_only = FALSE
    /\ ls_req = NoRequest
    /\ ls_answers = [a \in BOOLEAN |-> NoResponse]
    \* the handler is not called yet; its payload and the state of the server
    /\ st_pc = "idle"
    /\ st_kind = IF au_endpoint = "record_participant_endpoint" THEN "participant" ELSE "room"
    /\ st_room \in IF au_endpoint \in {"record_room_endpoint", "record_participant_endpoint"}
                  THEN NameTokens ELSE {<<>>}
    /\ st_identity \in IF au_endpoint = "record_participant_endpoint" THEN NameTokens ELSE {<<>>}
    /\ st_filename \in IF au_endpoint = "record_room_endpoint" THEN NameTokens \cup {<<>>}
                      ELSE {<<>>}
    /\ st_file = <<>>
    /\ st_req = <<>>
    /\ st_sent = 0
    \* the handler is not called yet; its payload and the state of the server
    /\ tk_pc = "idle"
    /\ tk_room \in IF au_endpoint = "generate_token_endpoint" THEN SrvRoomNames ELSE {<<>>}
    /\ tk_identity \in IF au_endpoint = "generate_token_endpoint"
                      THEN Range(Identities) \cup Range(SlashedIdentities) ELSE {<<>>}
    /\ \E v \in (IF au_endpoint = "generate_token_endpoint" THEN RoleInputs
                   ELSE {"viewer"}) :
          payload_role = v /\ tk_role = lower(v)
    /\ tk_check = "none"
    /\ tk_open = 0
    /\ srv_rooms \in IF au_endpoint \in {"generate_token_endpoint", "list_rooms_endpoint"}
                    THEN SUBSET SrvRoomNames ELSE {{}}
    \* no room listing
    /\ rm_pc = "idle"
    /\ rm_open = 0
    \* no call of client() or close() is counted
    /\ cl_calls = 0
    /\ cl_created = 0
    /\ cl_released = 0
    /\ cl_closing = 0
    /\ cl_outcome = "none"
    \* no create-room request
    /\ cr_name = <<>>
    /\ cr_pc = [r \in Requests |-> "idle"]
    /\ cr_responses = [r \in Requests |-> NoResponse]
    /\ cr_existed = <<>>
    \* the handler is not called yet; its payload and the state of the server
    /\ mt_pc = "idle"
    /\ mt_rooms = <<>>
    /\ mt_ttl = <<>>
    /\ mt_i = 0
    /\ mt_checks = <<>>
    /\ mt_results = <<>>
    \* the application is running, its egress singleton has made no client
    /\ app_state = "running"
    /\ egress_service = None

\* a LiveKitEgressService as its constructor leaves it
InitClient ==
    \* a fresh service and an untouched server
    /\ clock = 0
    /\ client_instance = None
    /\ srv_egress = <<>>
    /\ log = <<>>
    /\ response = NoResponse
    \* no call yet
    /\ cl_calls = 0
    /\ cl_created = 0
    /\ cl_released = 0
    /\ cl_closing = 0
    /\ cl_outcome = "none"
    \* no emitter fan-out
    /\ em_pc = "idle"
    /\ em_room = <<>>
    /\ em_min = 1
    /\ em_listed = <<>>
    /\ em_i = 0
    /\ em_tasks = <<>>
    /\ em_infos = <<>>
    \* no full-room start
    /\ fr_pc = "idle"
    /\ fr_room = <<>>
    /\ fr_room_task = "none"
    /\ fr_room_req = <<>>
    /\ fr_room_info = Pending
    /\ fr_em_task = "none"
    /\ fr_listed = <<>>
    /\ fr_i = 0
    /\ fr_tasks = <<>>
    /\ fr_infos = <<>>
    /\ fr_emitter_infos = <<>>
    \* no stop-many
    /\ sm_pc = "idle"
    /\ sm_room = <<>>
    /\ sm_participants = <<>>
    /\ sm_calls = <<>>
    /\ sm_results = <<>>
    /\ sm_completed = <<>>
    /\ srv_status = [e \in EgressIds |-> "unknown"]
    /\ srv_stops = <<>>
    \* no stop-one
    /\ so_pc = "idle"
    /\ so_id = None
    /\ so_stop = NotCalled
    /\ so_listed = <<>>
    /\ srv_records = [e \in EgressIds |-> NoRecord]
    /\ unconvertible = {}
    \* no listing
    /\ ls_pc = "idle"
    /\ ls_room = <<>>
    /\ ls_active_only = FALSE
    /\ ls_req = NoRequest
    /\ ls_answers = [a \in BOOLEAN |-> NoResponse]
    \* no single start
    /\ st_pc = "idle"
    /\ st_kind = "room"
    /\ st_room = <<>>
    /\ st_identity = <<>>
    /\ st_filename = <<>>
    /\ st_file = <<>>
    /\ st_req = <<>>
    /\ st_sent = 0
    \* no token request
    /\ tk_pc = "idle"
    /\ tk_room = <<>>
    /\ tk_identity = <<>>
    /\ tk_role = "viewer"
    /\ tk_check = "none"
    /\ tk_open = 0
    /\ srv_rooms = {}
    \* no room listing
    /\ rm_pc = "idle"
    /\ rm_open = 0
    \* the request passed its dependencies
    /\ au_pc = "idle"
    /\ au_endpoint = None
    /\ au_credentials = NoCredentials
    \* no create-room request
    /\ cr_name = <<>>
    /\ cr_pc = [r \in Requests |-> "idle"]
    /\ cr_responses = [r \in Requests |-> NoResponse]
    /\ cr_existed = <<>>
    \* no batch of tokens
    /\ payload_role = "viewer"
    /\ mt_pc = "idle"
    /\ mt_rooms = <<>>
    /\ mt_ttl = <<>>
    /\ mt_i = 0
    /\ mt_checks = <<>>
    /\ mt_results = <<>>
    \* the application is running, its egress singleton has made no client
    /\ app_state = "running"
    /\ egress_service = None

\* POST /rooms by several clients with the same name, against any set of active rooms
InitCreateRoom ==
    \* a fresh service and an untouched server
    /\ clock = 0
    /\ client_instance = None
    /\ srv_egress = <<>>
    /\ log = <<>>
    /\ response = NoResponse
    \* the requests
    /\ cr_name \in SrvRoomNames
    /\ cr_pc = [r \in Requests |-> "call"]
    /\ cr_responses = [r \in Requests |-> NoResponse]
    /\ cr_existed = <<>>
    \* no emitter fan-out
    /\ em_pc = "idle"
    /\ em_room = <<>>
    /\ em_min = 1
    /\ em_listed = <<>>
    /\ em_i = 0
    /\ em_tasks = <<>>
    /\ em_infos = <<>>
    \* no full-room start
    /\ fr_pc = "idle"
    /\ fr_room = <<>>
    /\ fr_room_task = "none"
    /\ fr_room_req = <<>>
    /\ fr_room_info = Pending
    /\ fr_em_task = "none"
    /\ fr_listed = <<>>
    /\ fr_i = 0
    /\ fr_tasks = <<>>
    /\ fr_infos = <<>>
    /\ fr_emitter_infos = <<>>
    \* no stop-many
    /\ sm_pc = "idle"
    /\ sm_room = <<>>
    /\ sm_participants = <<>>
    /\ sm_calls = <<>>
    /\ sm_results = <<>>
    /\ sm_completed = <<>>
    /\ srv_status = [e \in EgressIds |-> "unknown"]
    /\ srv_stops = <<>>
    \* no stop-one
    /\ so_pc = "idle"
    /\ so_id = None
    /\ so_stop = NotCalled
    /\ so_listed = <<>>
    /\ srv_records = [e \in EgressIds |-> NoRecord]
    /\ unconvertible = {}
    \* no listing
    /\ ls_pc = "idle"
    /\ ls_room = <<>>
    /\ ls_active_only = FALSE
    /\ ls_req = NoRequest
    /\ ls_answers = [a \in BOOLEAN |-> NoResponse]
    \* no single start
    /\ st_pc = "idle"
    /\ st_kind = "room"
    /\ st_room = <<>>
    /\ st_identity = <<>>
    /\ st_filename = <<>>
    /\ st_file = <<>>
    /\ st_req = <<>>
    /\ st_sent = 0
    \* no token request, the state of the server
    /\ tk_pc = "idle"
    /\ tk_room = <<>>
    /\ tk_identity = <<>>
    /\ tk_role = "viewer"
    /\ tk_check = "none"
    /\ tk_open = 0
    /\ srv_rooms \in SUBSET SrvRoomNames
    \* no room listing
    /\ rm_pc = "idle"
    /\ rm_open = 0
    \* the request passed its dependencies
    /\ au_pc = "idle"
    /\ au_endpoint = None
    /\ au_credentials = NoCredentials
    \* no call of client() or close() is counted
    /\ cl_calls = 0
    /\ cl_created = 0
    /\ cl_released = 0
    /\ cl_closing = 0
    /\ cl_outcome = "none"
    \* no batch of tokens
    /\ payload_role = "viewer"
    /\ mt_pc = "idle"
    /\ mt_rooms = <<>>
    /\ mt_ttl = <<>>
    /\ mt_i = 0
    /\ mt_checks = <<>>
    /\ mt_results = <<>>
    \* the application is running, its egress singleton has made no client
    /\ app_state = "running"
    /\ egress_service = None

NextEmitters ==
    \/ record_all_emitters_call
    \/ list_participants_ok
    \/ list_participants_raises
    \/ record_all_emitters_loop
    \/ record_all_emitters_no_tasks
    \/ record_all_emitters_gather
    \/ start_participant_egress_ok
    \/ start_participant_egress_raises
    \/ record_all_emitters_return
    \/ EmittersTick

SpecEmitters == InitEmitters /\ [][NextEmitters]_vars

NextFull ==
    \/ full_record_call
    \/ record_room2_run
    \/ record_all_emitters2_run
    \/ start_room_composite_egress_ok
    \/ start_room_composite_egress_raises
    \/ list_participants2_ok
    \/ list_participants2_raises
    \/ record_all_emitters2_loop
    \/ record_all_emitters2_no_tasks
    \/ record_all_emitters2_gather
    \/ start_participant_egress2_ok
    \/ start_participant_egress2_raises
    \/ record_all_emitters2_return
    \/ full_record_return
    \/ full_record_raises
    \/ FullTick

SpecFull == InitFull /\ [][NextFull]_vars

NextStopMany ==
    \/ stop_recordings_by_ids_call
    \/ stop_egress_ok
    \/ stop_egress_raises
    \/ stop_recordings_by_ids_return

SpecStopMany == InitStopMany /\ [][NextStopMany]_vars

NextStopOne ==
    \/ stop_recording_endpoint_call
    \/ stop_recording_ok
    \/ stop_recording_failed_precondition
    \/ stop_recording_twirp_error
    \/ stop_recording_exception
    \/ stop_recording_list_ok
    \/ stop_recording_list_raises

SpecStopOne == InitStopOne /\ [][NextStopOne]_vars

NextListByRoom ==
    \/ list_recordings_by_room_request
    \/ list_recordings_by_room_call
    \/ list_recordings_by_room_ok
    \/ list_recordings_by_room_raises
    \/ list_recordings_endpoint_call
    \/ list_recordings_ok
    \/ list_recordings_raises

SpecListByRoom == InitListByRoom /\ [][NextListByRoom]_vars

NextStart ==
    \/ record_room_endpoint_call
    \/ record_participant_endpoint_call
    \/ record_endpoint_ok
    \/ record_endpoint_raises

SpecStart == InitStart /\ [][NextStart]_vars

NextToken ==
    \/ TokenRequest_rejected
    \/ generate_token_endpoint_call
    \/ room_exists_ok
    \/ room_exists_raises

SpecToken == InitToken /\ [][NextToken]_vars

NextBatch ==
    \/ MultiTokenRequest_rejected
    \/ generate_tokens_multiple_endpoint_call
    \/ tokens_room_exists_ok
    \/ tokens_room_exists_raises

\* a request to either of the two token endpoints
SpecTokens == (InitToken \/ InitBatch) /\ [][NextToken \/ NextBatch]_vars

NextCreateRoom ==
    \E r \in Requests :
        \/ create_room_endpoint_call(r)
        \/ create_room_listed(r)
        \/ create_room_list_raises(r)
        \/ create_room_ok(r)
        \/ create_room_api_error(r)
        \/ create_room_exception(r)

SpecCreateRoom == InitCreateRoom /\ [][NextCreateRoom]_vars

\* a request to an endpoint of each service, then the shutdown of the application
SpecLifespan ==
    /\ InitStart \/ InitToken \/ InitCreateRoom
    /\ [][NextStart \/ NextToken \/ NextCreateRoom \/ lifespan_shutdown]_vars

NextClient ==
    \/ client_call
    \/ close_nothing
    \/ close_at_once
    \/ close_await
    \/ close_finally

SpecClient == InitClient /\ [][NextClient]_vars

\* one request to one of the two endpoints that gather their sub-calls
SpecGather ==
    /\ InitEmitters \/ InitStopMany
    /\ [][NextEmitters \/ NextStopMany]_vars

\* one request to stop-one or to one of the list endpoints
SpecStopOrList ==
    /\ InitStopOne \/ InitListByRoom
    /\ [][NextStopOne \/ NextListByRoom]_vars

NextRooms ==
    \/ list_rooms_endpoint_call
    \/ list_rooms_ok
    \/ list_rooms_api_error
    \/ list_rooms_exception

NextAuth ==
    \/ security_raises
    \/ verify_basic_auth_raises
    \/ verify_basic_auth_returns

\* one request to any endpoint of the three routers, with any credentials
SpecAuth ==
    /\ InitAuth
    /\ [][NextAuth \/ NextEmitters \/ NextFull \/ NextStopMany \/ NextStopOne
            \/ NextListByRoom \/ NextStart \/ NextToken \/ NextRooms]_vars

\* one request to any of the endpoints that start recordings
SpecStarts ==
    /\ InitStart \/ InitEmitters \/ InitFull
    /\ [][NextStart \/ NextEmitters \/ NextFull]_vars

(***************************************************************************)
(* Properties of the emitter fan-out.                                      *)
(***************************************************************************)
\* a participant qualifies: at least m of its tracks are unmuted audio or video
Qualifies(p, m) ==
    Cardinality({j \in DOMAIN p.tracks :
                    /\ p.tracks[j].muted = FALSE
                    /\ p.tracks[j].type \in {"AUDIO", "VIDEO"}}) >= m
EmQualifying == {i \in DOMAIN em_listed : Qualifies(em_listed[i], em_min)}
EmFailedTasks == {k \in DOMAIN em_infos : em_infos[k].state = "err"}
EmStartedTasks == {k \in DOMAIN em_infos : em_infos[k].state = "ok"}
\* the request is answered and the enumeration of the participants had succeeded
EmAnswered == em_pc = "done" /\ em_i > Len(em_listed)
EmptySuccess == response.status = 201 /\ response.participants = <<>>

\* C1 (as stated): with K of N participants qualifying the call returns exactly K
\* handles, and no start is attempted for the other N-K participants.
C1_ExactlyKHandles ==
    EmAnswered =>
        /\ response.status = 201
        /\ Len(response.participants) = Cardinality(EmQualifying)
        /\ {em_tasks[k].identity : k \in DOMAIN em_tasks}
              = {em_listed[i].identity : i \in EmQualifying}

\* C1 (amended): exactly K starts are attempted, one per qualifying participant and
\* none for the other N-K; the call returns one handle per start that succeeded,
\* K minus the number of failed starts, hence exactly K when no start fails.
C1_KStartsHandlesOfSucceeded ==
    /\ em_pc \in {"gathering", "done"} /\ em_i > Len(em_listed) =>
          /\ Len(em_tasks) = Cardinality(EmQualifying)
          /\ {em_tasks[k].identity : k \in DOMAIN em_tasks}
                = {em_listed[i].identity : i \in EmQualifying}
    /\ \A e \in Range(srv_egress) :
          \E i \in EmQualifying : em_listed[i].identity = e.identity
    /\ EmAnswered =>
          /\ response.status = 201
          /\ Len(response.participants)
                = Cardinality(EmQualifying) - Cardinality(EmFailedTasks)

C1_Witness ==
    /\ EmAnswered
    /\ Len(em_listed) = 2
    /\ Cardinality(EmQualifying) = 1
    /\ Len(response.participants) = 1

\* C2: a failed participant start neither aborts the batch nor raises: every task
\* runs to an outcome, the answer is 201, and the returned list is exactly the
\* handles of the starts that succeeded.
C2_FailuresIsolated ==
    EmAnswered =>
        /\ response.status = 201
        /\ \A k \in DOMAIN em_infos : em_infos[k].state \in {"ok", "err"}
        /\ Len(em_infos) = Len(em_tasks)
        /\ Len(response.participants) = Cardinality(EmStartedTasks)
        /\ Range(response.participants)
              = {em_infos[k].egress_id : k \in EmStartedTasks}
        /\ \A id \in Range(response.participants) :
              \E e \in Range(srv_egress) : e.egress_id = id

C2_Witness ==
    /\ EmAnswered
    /\ EmFailedTasks # {}
    /\ EmStartedTasks # {}
    /\ Len(response.participants) = 1

\* C3: when every start of the fan-out fails the call answers 201 with an empty
\* list, and every failure is in the error log.
C3_AllFailEmptyAndLogged ==
    (EmAnswered /\ em_tasks # <<>> /\ EmStartedTasks = {}) =>
        /\ EmptySuccess
        /\ \A k \in DOMAIN em_infos :
              \E n \in DOMAIN log : em_infos[k] \in Range(log[n])

C3_Witness ==
    /\ EmAnswered
    /\ Len(em_tasks) = 2
    /\ EmStartedTasks = {}
    /\ EmFailedTasks = {1, 2}
    /\ response.status = 201

\* C4 (as stated): the value returned when some start failed is never the value
\* returned when no participant qualified (201 with an empty list).
C4_ReturnValueDistinguishes ==
    /\ (EmAnswered /\ EmQualifying = {}) => EmptySuccess
    /\ (EmAnswered /\ EmFailedTasks # {}) => ~EmptySuccess

\* C4 (amended): the two outcomes are told apart by the error log, which holds a
\* record exactly when some start failed and none when no participant qualified;
\* the returned value differs from the empty list exactly when a start succeeded.
C4_LogDistinguishes ==
    EmAnswered =>
        /\ EmQualifying = {} => (EmptySuccess /\ log = <<>>)
        /\ (log # <<>>) <=> (EmFailedTasks # {})
        /\ EmFailedTasks # {} => (EmptySuccess <=> EmStartedTasks = {})

C4_Witness ==
    /\ EmAnswered
    /\ EmQualifying # {}
    /\ EmFailedTasks # {}
    /\ EmptySuccess
    /\ log # <<>>

\* the start requests built, and the recordings started, for listed participant i
EmRequestsFor(i) == {k \in DOMAIN em_tasks : em_tasks[k].identity = em_listed[i].identity}
EmRecordingsOf(i) ==
    {n \in DOMAIN srv_egress : srv_egress[n].identity = em_listed[i].identity}

\* C22: the fan-out issues exactly one participant-start request for each
\* participant with at least min_tracks tracks that are unmuted and audio or
\* video, and none for any other; when none qualifies no request is issued and
\* the call returns an empty list without error.
C22_OneStartPerQualifyingParticipant ==
    /\ em_pc \in {"gathering", "done"} /\ em_i > Len(em_listed) =>
          \A i \in DOMAIN em_listed :
              /\ Cardinality(EmRequestsFor(i)) = IF i \in EmQualifying THEN 1 ELSE 0
              /\ Cardinality(EmRecordingsOf(i)) <= Cardinality(EmRequestsFor(i))
    /\ em_pc = "loop" => srv_egress = <<>>
    /\ (EmAnswered /\ EmQualifying = {}) =>
          /\ em_tasks = <<>>
          /\ em_infos = <<>>
          /\ srv_egress = <<>>
          /\ log = <<>>
          /\ response = EmittersRecordIdsResponse(<<>>)

\* two participants were listed, neither qualified, and the call answered
C22_Witness ==
    /\ EmAnswered
    /\ Len(em_listed) = 2
    /\ EmQualifying = {}
    /\ response.status = 201
    /\ response.participants = <<>>

\* C14: no two start requests of one emitter fan-out carry the same output file
\* path (the participants the server lists have pairwise distinct identities).
C14_DistinctFilePaths ==
    em_pc \in {"gathering", "done"} =>
        \A j, k \in DOMAIN em_tasks :
            j # k => em_tasks[j].filepath # em_tasks[k].filepath

(***************************************************************************)
(* Properties of the full-room start.                                      *)
(***************************************************************************)
FrAnswered == fr_pc = "done"
FrTaskFinished(t) == t \in {"ok", "err"}
\* the file paths of the start requests the call has sent
FrFilePaths ==
    (IF fr_room_task \in {"awaiting", "ok", "err"} THEN {fr_room_req.filepath} ELSE {})
    \cup (IF fr_em_task \in {"gathering", "ok"}
          THEN {fr_tasks[k].filepath : k \in DOMAIN fr_tasks}
          ELSE {})
\* the session folder of a file path: its first two segments, what precedes its
\* second separator
Folder(path) ==
    LET slashes == {i \in DOMAIN path : path[i] = "/"}
        second == {i \in slashes : Cardinality({j \in slashes : j < i}) = 1}
    IN  IF second = {} THEN <<>>
        ELSE SubSeq(path, 1, (CHOOSE i \in second : TRUE) - 1)

\* C5: when the room-composite start fails the call fails with 500, also when
\* every participant start of the fan-out branch succeeded; a 201 answer means the
\* room-composite start succeeded.
C5_RoomFailureFailsCall ==
    /\ (FrAnswered /\ fr_room_task = "err") => response.status = 500
    /\ response.status = 201 => fr_room_task = "ok"

C5_Witness ==
    /\ FrAnswered
    /\ fr_room_task = "err"
    /\ fr_em_task = "ok"
    /\ fr_infos # <<>>
    /\ \A k \in DOMAIN fr_infos : fr_infos[k].state = "ok"
    /\ response.status = 500

\* C6: full_record completes (returns or raises to its caller) only after both the
\* room-composite branch and the emitter fan-out branch have completed, with no
\* remote call of either branch outstanding.
C6_JoinSemantics ==
    FrAnswered =>
        /\ FrTaskFinished(fr_room_task)
        /\ FrTaskFinished(fr_em_task)
        /\ \A k \in DOMAIN fr_infos : fr_infos[k] # Pending

\* C7: all file outputs requested by one full_record call lie in the same session
\* folder full/{room}_{timestamp}, however the clock advances during the call.
C7_SharedSessionPrefix ==
    \A p, q \in FrFilePaths : Folder(p) = Folder(q)

\* C8: when the emitter fan-out branch raises (the enumeration of the participants
\* fails) the call fails with 500 although the room-composite start succeeded; a
\* 201 answer means the fan-out branch returned.
C8_EmitterBranchFailureFailsCall ==
    /\ (FrAnswered /\ fr_em_task = "err") => response.status = 500
    /\ response.status = 201 => fr_em_task = "ok"

C8_Witness ==
    /\ FrAnswered
    /\ fr_em_task = "err"
    /\ fr_room_task = "ok"
    /\ \E e \in Range(srv_egress) : e.kind = "room_composite"
    /\ response.status = 500

\* C25: every recording the server starts on behalf of a full_record call has its
\* handle in the response of that call: when the call is answered, with an error
\* or not, no recording it started is left running unreported.
C25_EveryStartedRecordingIsReported ==
    FrAnswered =>
        \A e \in Range(srv_egress) :
            e.egress_id \in Range(response.room) \cup Range(response.participants)

(***************************************************************************)
(* Properties of stop-many.                                                *)
(***************************************************************************)
SmAnswered == sm_pc = "done"
SmIds == sm_room \o sm_participants
SmFailed == {k \in DOMAIN sm_calls : sm_calls[k].state = "err"}
SmErrorEntries == {i \in DOMAIN response.items : response.items[i].error # None}
SmSuccessEntries ==
    {i \in DOMAIN response.items :
        /\ response.items[i].error = None
        /\ response.items[i].status # None
        /\ response.items[i].message = "Grabacion detenida correctamente"}

\* C9: stop-many with M identifiers (duplicates included) of which F stops fail
\* answers with exactly M entries, M-F of them with a status and the success
\* message and no error, F of them with an error; every stop is attempted and
\* runs to an outcome whatever the others do.
C9_StopManyReportsEach ==
    SmAnswered =>
        /\ response.status = 200
        /\ Len(response.items) = Len(sm_room) + Len(sm_participants)
        /\ Len(srv_stops) = Len(sm_room) + Len(sm_participants)
        /\ \A k \in DOMAIN sm_calls : sm_calls[k].state \in {"ok", "err"}
        /\ Cardinality(SmErrorEntries) = Cardinality(SmFailed)
        /\ Cardinality(SmSuccessEntries) = Len(SmIds) - Cardinality(SmFailed)

C9_Witness ==
    /\ SmAnswered
    /\ Len(sm_room) = 1
    /\ Len(sm_participants) = 2
    /\ sm_room[1] = sm_participants[1]
    /\ Cardinality(SmFailed) = 2
    /\ Len(response.items) = 3
    /\ Cardinality(SmSuccessEntries) = 1

\* C10: entry i of the answer of stop-many is the entry of the i-th identifier of
\* (room identifiers, then participant identifiers): it carries that identifier and
\* the outcome of that stop, whatever the order in which the stops completed.
C10_ResultsAlignedWithInput ==
    SmAnswered =>
        /\ Len(response.items) = Len(SmIds)
        /\ \A i \in DOMAIN response.items :
              /\ response.items[i].egress_id = SmIds[i]
              /\ (response.items[i].error = None) <=> (sm_calls[i].state = "ok")

C10_Witness ==
    /\ SmAnswered
    /\ Len(sm_room) = 1
    /\ Len(sm_participants) = 2
    /\ sm_completed = <<3, 1, 2>>
    /\ response.items[1].egress_id # response.items[3].egress_id
    /\ response.items[3].egress_id = sm_participants[2]

(***************************************************************************)
(* Properties of stop-one.                                                 *)
(***************************************************************************)
\* the request is over: answered by the handler, or left by an exception
SoEnded == so_pc \in {"done", "raised"}
\* the stop call reported the recording as already stopped, and the server holds it
SoAlreadyStopped ==
    /\ so_stop = StopRaised("failed_precondition")
    /\ srv_status[so_id] # "unknown"
\* the answer is 200 with the state the server holds for so_id and the message
SoLastKnownState ==
    /\ response.status = 200
    /\ Len(response.items) = 1
    /\ response.items[1].egress_id = so_id
    /\ response.items[1].status = srv_status[so_id]
    /\ response.items[1].room_name = srv_records[so_id].room_name
    /\ response.items[1].message = "La grabacion ya estaba finalizada"

C12_UnknownIsNotFound ==
    (SoEnded /\ srv_status[so_id] = "unknown" /\ so_stop.state = "err") =>
        response.status = 404

(***************************************************************************)
(* Properties of listing by room.                                          *)
(***************************************************************************)
LsListed(active_only) == ls_answers[active_only].status = 200
LsRecords(active_only) == Range(ls_answers[active_only].items)

\* C13: with the state of the server fixed, the records the listing of a room
\* returns with active_only=true are a subset of the records the listing of the
\* same room returns with active_only=false.
C13_ActiveOnlyIsSubset ==
    (LsListed(TRUE) /\ LsListed(FALSE)) => LsRecords(TRUE) \subseteq LsRecords(FALSE)

C13_Witness ==
    /\ LsListed(TRUE)
    /\ LsListed(FALSE)
    /\ Cardinality(LsRecords(TRUE)) = 1
    /\ Cardinality(LsRecords(FALSE)) = 2

(***************************************************************************)
(* Properties of the single starts and of the file names.                  *)
(***************************************************************************)
StRequested == st_pc \in {"starting", "done"}
NoDoubleSeparator(path) ==
    \A i \in 1..(Len(path) - 1) : ~(path[i] = "/" /\ path[i + 1] = "/")
\* {kind-tag}_{room}[_{identity}]_{timestamp}.{ext}
OrderedName(kind_tag, room_name, identity, t) ==
    <<kind_tag, "_">> \o room_name
        \o (IF identity # <<>> THEN <<"_">> \o identity ELSE <<>>)
        \o <<"_", strftime(t), ".mp4">>

\* C15: the file path of a start request never contains two path separators in a
\* row, whatever separators the room name, the identity or the caller's file
\* name contain.
C15_NoDoubleSeparator ==
    StRequested => NoDoubleSeparator(st_req.filepath)

\* C16: a generated file name is kind-tag, room name, identity (for a participant
\* only), timestamp, extension, in this order, for a single room start and a
\* single participant start.
C16_NameOrder ==
    (StRequested /\ st_filename = <<>>) =>
        \E t \in 0..MaxClock :
            st_file = OrderedName(IF st_kind = "room" THEN "room" ELSE "participant",
                                  st_room, st_identity, t)

\* once a call of a start operation has failed, it stays failed and no request is
\* sent for it again
NoReissue ==
    /\ st_sent' >= st_sent
    /\ (st_pc = "done") => (st_sent' = st_sent /\ srv_egress' = srv_egress)
    /\ \A k \in DOMAIN em_infos :
          em_infos[k].state = "err" => (k \in DOMAIN em_infos' /\ em_infos'[k] = em_infos[k])
    /\ \A k \in DOMAIN fr_infos :
          fr_infos[k].state = "err" => (k \in DOMAIN fr_infos' /\ fr_infos'[k] = fr_infos[k])
    /\ fr_room_task = "err" => fr_room_task' = "err"
    /\ fr_em_task = "err" => fr_em_task' = "err"
    /\ Len(srv_egress') <= Len(srv_egress) + 1

\* C17: a single-target start issues exactly one remote start request; when it
\* fails the caller gets one 500 answer, nothing was started and nothing more is
\* sent; and in every start operation a call that failed is never issued again,
\* so the server starts at most one recording per request built.
C17_OneRequestNoRetry ==
    /\ [](/\ st_pc = "call" => st_sent = 0
          /\ StRequested => st_sent = 1
          /\ (st_pc = "done" /\ response.status # 201) =>
                (response.status = 500 /\ response.detail # None /\ srv_egress = <<>>)
          /\ Len(srv_egress) <= st_sent + Len(em_tasks) + Len(fr_tasks)
                                  + (IF fr_room_task = "none" THEN 0 ELSE 1))
    /\ [][NoReissue]_vars

C17_Witness ==
    /\ st_pc = "done"
    /\ st_kind = "participant"
    /\ response.status = 500
    /\ st_sent = 1
    /\ srv_egress = <<>>

(***************************************************************************)
(* Properties of the HTTP boundary.                                        *)
(***************************************************************************)
\* C18: in a non-batch operation the failure of a remote call is answered with a
\* server error (5xx), except failed_precondition on stop-one: for a single
\* start, stop-one, the listing of a room and the issuance of a token.
C18_RemoteFailureIsServerError ==
    /\ (tk_pc = "done" /\ tk_check = "failed") => response.status >= 500
    /\ (st_pc = "done" /\ srv_egress = <<>>) => response.status >= 500
    /\ (so_pc = "done" /\ so_stop.state = "err"
          /\ so_stop.error # "failed_precondition") => response.status >= 500
    /\ (so_pc = "raised") => response.status >= 500
    /\ (ls_pc = "done" /\ ls_answers[ls_active_only].items = <<>>
          /\ ls_answers[ls_active_only].detail # None) => response.status >= 500

\* C19: every failure of an egress operation is answered by the handler with an
\* HTTP error that carries a message: no exception of a remote call leaves a
\* handler unconverted.
C19_FailuresAreConverted ==
    /\ so_pc # "raised"
    /\ response.status >= 400 => response.detail # None

(***************************************************************************)
(* Properties of the creation of rooms.                                    *)
(***************************************************************************)
\* the requests answered with a given status
CrAnswered(code) == {r \in Requests : cr_responses[r].status = code}

\* C26: among the create-room requests for one name, served one after the other
\* or interleaved, a remote create-room call is made only while no active room of
\* that name exists: at most one request is answered 201, and a request that
\* found the room active is answered 409 without a remote create call.
C26_AtMostOneCreates ==
    /\ \A k \in DOMAIN cr_existed : cr_existed[k] = FALSE
    /\ Cardinality(CrAnswered(201)) <= 1
    /\ Len(cr_existed) <= 1

(***************************************************************************)
(* Properties of the client of the egress service.                         *)
(***************************************************************************)
\* the instances that were constructed and not yet taken out of the service
ClHeld == cl_created - cl_released

\* C24: over any interleaving of client() and close() calls on one service at most
\* one client instance is held at a time: client() constructs one only when none
\* is held, and close() leaves none held, also when closing raises.
C24_AtMostOneClientHeld ==
    /\ ClHeld \in {0, 1}
    /\ ClHeld = 1 <=> client_instance # None
    /\ cl_outcome = "client" => client_instance # None
    /\ cl_outcome \in {"closed", "raised"} => client_instance = None

\* closing the second instance raised, and none is held
C24_Witness ==
    /\ cl_outcome = "raised"
    /\ cl_created = 2
    /\ cl_released = 2
    /\ client_instance = None

\* C27: every client instance created while a request was served (by the room,
\* the participant or the egress service) is closed by the end of the request, or
\* at the latest when the application has shut down, on success and on failure
\* paths alike.
C27_ClientsClosedAtShutdown ==
    app_state = "stopped" =>
        /\ client_instance = None
        /\ egress_service = None
        /\ tk_open = 0
        /\ rm_open = 0

(***************************************************************************)
(* Properties of the two gathers.                                          *)
(***************************************************************************)
\* C23: in the emitter fan-out and in stop-many every sub-call is launched before
\* the orchestrator waits on the result of any of them, and the operation returns
\* only after all its sub-calls have finished.
C23_GatherLaunchesAllAndWaitsForAll ==
    \* nothing is outstanding or answered before everything is launched
    /\ em_pc \in {"call", "listing", "loop"} => (em_infos = <<>> /\ srv_egress = <<>>)
    /\ sm_pc = "call" => (sm_calls = <<>> /\ sm_completed = <<>> /\ srv_stops = <<>>)
    \* while the orchestrator waits, every sub-call has been launched
    /\ em_pc = "gathering" =>
          /\ Len(em_infos) = Len(em_tasks)
          /\ Len(em_tasks) = Cardinality(EmQualifying)
    /\ sm_pc = "gather" => (srv_stops = SmIds /\ Len(sm_calls) = Len(SmIds))
    \* the operation has returned: no sub-call is outstanding
    /\ em_pc = "done" =>
          /\ Len(em_infos) = Len(em_tasks)
          /\ \A k \in DOMAIN em_infos : em_infos[k].state \in {"ok", "err"}
    /\ sm_pc = "done" =>
          /\ \A k \in DOMAIN SmIds : sm_calls[k] # NotCalled
          /\ Range(sm_completed) = DOMAIN SmIds
          /\ Len(response.items) = Len(SmIds)

\* the fan-out returned after two starts of which the second finished first
C23_Witness ==
    /\ em_pc = "done"
    /\ Len(em_tasks) = 2
    /\ Len(srv_egress) = 2
    /\ srv_egress[1].identity = em_tasks[2].identity
    /\ Len(response.participants) = 2

(***************************************************************************)
(* Properties of the timestamps of the responses.                          *)
(***************************************************************************)
\* the record of the server has no such timestamp, or its conversion raises
NoStarted(id) ==
    srv_records[id].started_at = 0 \/ srv_records[id].started_at \in unconvertible
NoEnded(id) ==
    srv_records[id].ended_at = 0 \/ srv_records[id].ended_at \in unconvertible

\* the items of a response give null for the timestamps that are unset or fail
NullWhenUnset(items) ==
    \A k \in DOMAIN items :
        /\ NoStarted(items[k].egress_id) => items[k].started_at = None
        /\ NoEnded(items[k].egress_id) => items[k].ended_at = None

\* the listing of a room converts nothing: it gives the timestamp as the server
\* sent it, and null for one that is unset
NullWhenZero(items) ==
    \A k \in DOMAIN items :
        /\ srv_records[items[k].egress_id].started_at = 0 => items[k].started_at = None
        /\ srv_records[items[k].egress_id].ended_at = 0 => items[k].ended_at = None

\* C21: in the response of stop-one and of the list operations, started_at and
\* ended_at are null when the record of the server has no such timestamp or when
\* its conversion fails; a conversion failure never makes the request fail: the
\* request is answered 200 whenever the remote calls it needed have answered
C21_TimestampsNullWhenUnsetOrUnconvertible ==
    /\ (so_pc = "done" /\ response.status = 200) => NullWhenUnset(response.items)
    /\ (so_pc = "done" /\ so_stop.state = "ok") => response.status = 200
    /\ (so_pc = "done" /\ so_listed # <<>> /\ existing(so_listed, so_id) # <<>>)
          => response.status = 200
    /\ (ls_pc = "all listed" /\ response.status = 200) => NullWhenUnset(response.items)
    /\ (ls_pc = "all listed" /\ response.status # 200)
          => response = HttpError(500, "list_egress failed")
    /\ \A a \in BOOLEAN :
          ls_answers[a].status = 200 => NullWhenZero(ls_answers[a].items)

\* stop-one answered 200 for a record whose started_at could not be converted
C21_Witness ==
    /\ so_pc = "done"
    /\ response.status = 200
    /\ srv_records[so_id].started_at # 0
    /\ srv_records[so_id].started_at \in unconvertible
    /\ response.items[1].started_at = None

(***************************************************************************)
(* Properties of the authentication of the routers.                        *)
(***************************************************************************)
\* no handler has been called
HandlersIdle ==
    /\ em_pc = "idle" /\ fr_pc = "idle" /\ sm_pc = "idle" /\ so_pc = "idle"
    /\ ls_pc = "idle" /\ st_pc = "idle" /\ tk_pc = "idle" /\ rm_pc = "idle"

\* no service has created a client or sent a request, the server has seen none
NoRemoteCall ==
    /\ client_instance = None /\ tk_open = 0 /\ rm_open = 0
    /\ srv_egress = <<>> /\ srv_stops = <<>>
    /\ st_sent = 0 /\ so_stop = NotCalled /\ ls_req = NoRequest /\ tk_check = "none"
    /\ em_listed = <<>> /\ fr_room_task = "none" /\ fr_em_task = "none"
    /\ sm_calls = <<>>

\* the request carries exactly the configured credentials
ConfiguredCredentials ==
    /\ au_credentials.scheme = "Basic"
    /\ au_credentials.username = API_USER
    /\ au_credentials.password = API_PASSWORD

\* C20: every room, participant and egress endpoint is behind HTTP Basic
\* authentication: a request is accepted exactly when its username equals API_USER
\* and its password equals API_PASSWORD; any other request is answered 401, its
\* handler is never called and no remote call is issued for it
C20_BasicAuthGuardsEveryEndpoint ==
    /\ au_pc \in {"request", "accepted", "rejected"}
    /\ au_pc = "request" => HandlersIdle /\ NoRemoteCall
    /\ au_pc = "accepted" => ConfiguredCredentials
    /\ au_pc = "rejected" =>
          /\ ~ConfiguredCredentials
          /\ response.status = 401
          /\ HandlersIdle
          /\ NoRemoteCall

\* a request with the configured user name and another password was answered 401
C20_Witness ==
    /\ au_pc = "rejected"
    /\ au_credentials.scheme = "Basic"
    /\ au_credentials.username = API_USER
    /\ au_credentials.password # API_PASSWORD
    /\ response.status = 401


(***************************************************************************)
(* Properties of the tokens.                                               *)
(***************************************************************************)
\* the items of the answer of a token endpoint that carry a token
IssuedItems ==
    IF (tk_pc = "done" \/ mt_pc = "done") /\ response.status = 201
    THEN Range(response.items)
    ELSE {}

\* the rooms of the batch whose room_exists found the room
RoomsFound == {mt_rooms[i] : i \in {j \in DOMAIN mt_checks : mt_checks[j] = "found"}}

\* C28: every token issued through the single-token or the batch-token endpoint has
\* a time-to-live between 60 and 86400 seconds inclusive.
C28_TtlWithinBounds ==
    \A item \in IssuedItems :
        /\ item.token.ttl >= MinTtlSeconds
        /\ item.token.ttl <= MaxTtlSeconds

\* C29: a token is issued only when the requested role is emitter or viewer in any
\* letter case and the room-existence check found the room; otherwise there is no
\* token and the single-token endpoint answers with a client error.  An issued token
\* grants join and subscribe on the requested room only, and publish exactly when
\* the role is emitter.
C29_TokenOnlyForKnownRoleAndRoom ==
    /\ IssuedItems # {} => lower(payload_role) \in Roles
    /\ (tk_pc = "done" /\ IssuedItems # {}) => tk_check = "found"
    /\ mt_pc = "done" => \A item \in IssuedItems : item.room \in RoomsFound
    /\ (tk_pc = "done" /\ (lower(payload_role) \notin Roles \/ tk_check # "found")) =>
          /\ response.items = <<>>
          /\ response.status \in 400..499
    /\ \A item \in IssuedItems :
          /\ item.token.room = (IF tk_pc = "done" THEN tk_room ELSE item.room)
          /\ item.token.room_join
          /\ item.token.can_subscribe
          /\ item.token.can_publish <=> (lower(payload_role) = "emitter")

\* a viewer whose role was sent in capital letters got a token that cannot publish
C29_Witness ==
    /\ tk_pc = "done"
    /\ payload_role = "VIEWER"
    /\ tk_check = "found"
    /\ response.status = 201
    /\ ~response.items[1].token.can_publish

\* C30: a batch returns a token for exactly the requested rooms whose existence check
\* found the room: a room that does not exist is left out without failing the batch,
\* the rooms after it are still processed, and the endpoint answers 404 exactly when
\* no requested room yielded a token.
C30_BatchReturnsTheRoomsFound ==
    (mt_pc = "done" /\ tk_role \in Roles) =>
        /\ Len(mt_checks) = Len(mt_rooms)
        /\ response.status \in {201, 404}
        /\ {item.room : item \in Range(response.items)} = RoomsFound
        /\ Len(response.items) = Cardinality(RoomsFound)
        /\ response.status = 404 <=> RoomsFound = {}

\* the first room of a batch was not found, the second one got its token
C30_Witness ==
    /\ mt_pc = "done"
    /\ Len(mt_checks) = 2
    /\ mt_checks[1] # "found"
    /\ mt_checks[2] = "found"
    /\ response.status = 201
    /\ Len(response.items) = 1
    /\ response.items[1].room = mt_rooms[2]


=============================================================================
